---- MODULE Spec2Model ----
(***************************************************************************)
(* A model of the torchat_paste core: the libsodium wrapper (crypto.rs),   *)
(* the chat protocol (protocol.rs) and the secure storage (storage.rs).    *)
(*                                                                         *)
(* Byte strings and Rust Strings are sequences of integers 0..255 (a       *)
(* String is the sequence of its ASCII codes), at their true lengths, so   *)
(* that slicing, length checks and base64 are computed as the code         *)
(* computes them.  The libsodium primitives are idealised: deterministic   *)
(* functions of their inputs whose outputs differ when their inputs        *)
(* differ; random draws are nondeterministic choices of a seed.            *)
(***************************************************************************)
EXTENDS Integers, Sequences, FiniteSets, TLC

(***************************************************************************)
(* Bounds of the model.                                                    *)
(***************************************************************************)
\* identities (key pairs) the random generator can produce
NumKeys == 2
\* outcomes of one random draw of a nonce or of a salt
NumSeeds == 2
\* longest plaintext handed to encrypt and encrypt_with_password
MaxLen == 2
\* longest data handed to apply_padding
MaxPadLen == 2
\* largest block size handed to apply_padding
MaxBlock == 4
\* messages created on one ChatProtocol
MaxMsgs == 4

\* the values the random generator can draw for salts and nonces
NumDraws == 4

\* how many ".onion" suffixes an address handed to the validation ends with
MaxSuffixes == 2

(***************************************************************************)
(* Results: Rust's Result<T, E>.                                           *)
(***************************************************************************)
Ok(v) == [ok |-> TRUE, val |-> v]

Err(e) == [ok |-> FALSE, err |-> e]

(***************************************************************************)
(* Sequences of bytes.                                                     *)
(***************************************************************************)
\* the sequence f as an explicit tuple, so that its elements are computed once
Tuple(f) == f \o <<>>

\* &s[from..to] of Rust (0-based, `to` excluded)
Slice(s, from, to) == SubSeq(s, from + 1, to)

\* n copies of b
Repeat(b, n) == Tuple([i \in 1..n |-> b])

RECURSIVE PowMod(_, _, _)
\* g^e modulo p, by repeated squaring
PowMod(g, e, p) ==
    IF e = 0 THEN 1
    ELSE IF e % 2 = 0 THEN LET h == PowMod(g, e \div 2, p) IN (h * h) % p
    ELSE (g * PowMod(g, e - 1, p)) % p

RECURSIVE PolyRange(_, _, _, _)
\* the polynomial with coefficients s[lo..hi] at the point r, modulo the prime 251
PolyRange(s, lo, hi, r) ==
    IF lo > hi THEN 0
    ELSE IF lo = hi THEN s[lo] % 251
    ELSE LET mid == (lo + hi) \div 2
         IN  (PolyRange(s, lo, mid, r)
                + PowMod(r, mid - lo + 1, 251) * PolyRange(s, mid + 1, hi, r)) % 251

(***************************************************************************)
(* base64::engine::general_purpose::STANDARD: the RFC 4648 alphabet with   *)
(* canonical '=' padding.                                                  *)
(***************************************************************************)
\* the ASCII code of the digit for sextet v
B64Char(v) ==
    IF v < 26 THEN 65 + v
    ELSE IF v < 52 THEN 97 + (v - 26)
    ELSE IF v < 62 THEN 48 + (v - 52)
    ELSE IF v = 62 THEN 43 ELSE 47

\* the sextet of ASCII code c, or -1 when c is not in the alphabet
B64Val(c) ==
    IF c >= 65 /\ c <= 90 THEN c - 65
    ELSE IF c >= 97 /\ c <= 122 THEN c - 97 + 26
    ELSE IF c >= 48 /\ c <= 57 THEN c - 48 + 52
    ELSE IF c = 43 THEN 62
    ELSE IF c = 47 THEN 63 ELSE -1

\* 64^k for k in 0..3
Pow64(k) == IF k = 0 THEN 1 ELSE IF k = 1 THEN 64 ELSE IF k = 2 THEN 4096 ELSE 262144

\* 256^k for k in 0..2
Pow256(k) == IF k = 0 THEN 1 ELSE IF k = 1 THEN 256 ELSE 65536

ByteAt(bs, i) == IF i <= Len(bs) THEN bs[i] ELSE 0

\* BASE64.encode(bs): 4 characters per group of 3 bytes, '=' (61) past the data
Base64Encode(bs) ==
    LET n == Len(bs)
        groups == (n + 2) \div 3
        triple(g) == ByteAt(bs, 3 * g + 1) * 65536 + ByteAt(bs, 3 * g + 2) * 256
                       + ByteAt(bs, 3 * g + 3)
        have(g) == IF n - 3 * g >= 3 THEN 3 ELSE n - 3 * g
    IN  Tuple([k \in 1..(4 * groups) |->
            LET g == (k - 1) \div 4
                j == (k - 1) % 4
            IN  IF j > have(g) THEN 61
                ELSE B64Char((triple(g) \div Pow64(3 - j)) % 64)])

\* BASE64.decode(s): Err on a length that is no multiple of 4, a character
\* outside the alphabet, misplaced padding or non-zero trailing bits
Base64Decode(s) ==
    LET L == Len(s)
        pad == IF L >= 2 /\ s[L] = 61 /\ s[L - 1] = 61 THEN 2
               ELSE IF L >= 1 /\ s[L] = 61 THEN 1 ELSE 0
        groups == L \div 4
        n == 3 * groups - pad
        val(k) == IF k <= L - pad THEN B64Val(s[k]) ELSE 0
        triple(g) == val(4 * g + 1) * 262144 + val(4 * g + 2) * 4096
                       + val(4 * g + 3) * 64 + val(4 * g + 4)
        lastTriple == triple(groups - 1)
        trailing == IF pad = 0 THEN 0
                    ELSE IF pad = 1 THEN lastTriple % 256
                    ELSE lastTriple % 65536
    IN  IF L % 4 # 0 THEN Err("Base64Error")
        ELSE IF \E k \in 1..(L - pad) : B64Val(s[k]) = -1 THEN Err("Base64Error")
        ELSE IF trailing # 0 THEN Err("Base64Error")
        ELSE Ok(Tuple([i \in 1..n |->
                    (triple((i - 1) \div 3) \div Pow256(2 - ((i - 1) % 3))) % 256]))

(***************************************************************************)
(* libsodium, as sodiumoxide exposes it.  Each primitive is an idealised   *)
(* stand-in: a deterministic function with the lengths of the real one.    *)
(***************************************************************************)
\* secretbox::KEYBYTES, kx::PUBLICKEYBYTES, kx::SECRETKEYBYTES, kx::SESSIONKEYBYTES
KEYBYTES == 32
\* secretbox::NONCEBYTES
NONCEBYTES == 24
\* secretbox::MACBYTES
MACBYTES == 16
\* pwhash::argon2id13::SALTBYTES
SALTBYTES == 16
\* sha256::DIGESTBYTES
DIGESTBYTES == 32

\* n pseudo-random bytes that depend on every byte of data and on its length;
\* `tag` separates the primitives
Mix(tag, data, n) ==
    LET h1 == PolyRange(data, 1, Len(data), 2)
        h2 == PolyRange(data, 1, Len(data), 3)
        h3 == PolyRange(data, 1, Len(data), 5)
        c == tag * 41 + Len(data) * 13
    IN  Tuple([i \in 1..n |-> (c + h1 + i * h2 + i * i * h3 + 7 * i) % 256])

\* randombytes(n), secretbox::gen_nonce(): the bytes of the draw `seed`
RandomBytes(seed, n) == Tuple([i \in 1..n |-> (seed * 53 + i * 29 + n) % 256])

\* T::from_slice(bs) of a fixed-size sodiumoxide type: None unless Len(bs) = n
FromSlice(bs, n) == IF Len(bs) = n THEN Ok(bs) ELSE Err("None")

\* a 32-byte key whose group element (or scalar) is v
KeyBytes(v) ==
    Tuple([i \in 1..KEYBYTES |-> IF i = 1 THEN v ELSE (v * 31 + i * 17) % 256])

\* crypto_scalarmult_base: Diffie-Hellman in the group of units modulo 251
ScalarMultBase(sk) == KeyBytes(PowMod(6, sk[1], 251))

\* crypto_scalarmult(sk, pk): Err when the shared point is zero (a low-order pk)
ScalarMult(sk, pk) ==
    LET q == PowMod(pk[1], sk[1], 251)
    IN  IF q = 0 THEN Err("zero") ELSE Ok(KeyBytes(q))

\* kx::gen_keypair() on the draw `seed`: (pk, sk)
KxGenKeypair(seed) == LET sk == KeyBytes(seed + 1) IN <<ScalarMultBase(sk), sk>>

\* kx::client_session_keys: (rx, tx) = the two halves of H(q || client_pk || server_pk)
KxClientSessionKeys(client_pk, client_sk, server_pk) ==
    LET q == ScalarMult(client_sk, server_pk)
        h == Mix(5, q.val \o client_pk \o server_pk, 2 * KEYBYTES)
    IN  IF ~q.ok THEN Err("()")
        ELSE Ok(<<Slice(h, 0, KEYBYTES), Slice(h, KEYBYTES, 2 * KEYBYTES)>>)

\* kx::server_session_keys: (rx, tx) = the halves of the same hash, swapped
KxServerSessionKeys(server_pk, server_sk, client_pk) ==
    LET q == ScalarMult(server_sk, client_pk)
        h == Mix(5, q.val \o client_pk \o server_pk, 2 * KEYBYTES)
    IN  IF ~q.ok THEN Err("()")
        ELSE Ok(<<Slice(h, KEYBYTES, 2 * KEYBYTES), Slice(h, 0, KEYBYTES)>>)

\* the XSalsa20 key stream of (key, nonce)
KeyStream(key, nonce, n) == Mix(1, key \o nonce, n)

\* the Poly1305 tag of the encrypted body under (key, nonce)
Poly1305(key, nonce, body) == Mix(2, key \o nonce \o body, MACBYTES)

\* secretbox::seal(m, nonce, key): tag || (m + key stream)
SecretboxSeal(m, nonce, key) ==
    LET ks == KeyStream(key, nonce, Len(m))
        body == Tuple([i \in 1..Len(m) |-> (m[i] + ks[i]) % 256])
    IN  Poly1305(key, nonce, body) \o body

\* secretbox::open(c, nonce, key): Err(()) unless the tag verifies
SecretboxOpen(c, nonce, key) ==
    IF Len(c) < MACBYTES THEN Err("()")
    ELSE LET tag == Slice(c, 0, MACBYTES)
             body == Slice(c, MACBYTES, Len(c))
             ks == KeyStream(key, nonce, Len(body))
         IN  IF tag # Poly1305(key, nonce, body) THEN Err("()")
             ELSE Ok(Tuple([i \in 1..Len(body) |-> (body[i] + 256 - ks[i]) % 256]))

\* pwhash::argon2id13::derive_key(key, password, salt, OPSLIMIT, MEMLIMIT)
Argon2idDeriveKey(password, salt) == Ok(Mix(3, salt \o password, KEYBYTES))

\* sha256::hash(data)
Sha256(data) == Mix(4, data, DIGESTBYTES)

(***************************************************************************)
(* crypto.rs                                                               *)
(***************************************************************************)
\* Fingerprint::from_public_key
FingerprintFromPublicKey(pk) == Base64Encode(Slice(Sha256(pk), 0, 8))

\* Fingerprint::formatted: a hyphen pushed before every character whose index i
\* (from 0) has i > 0 and i % 4 = 0
FingerprintFormatted(raw) ==
    LET n == Len(raw)
        len == IF n = 0 THEN 0 ELSE n + ((n - 1) \div 4)
    IN  Tuple([j \in 1..len |->
                 IF (j - 1) % 5 = 4 THEN 45 ELSE raw[4 * ((j - 1) \div 5) + ((j - 1) % 5) + 1]])

\* verify comparing the lengths only
FingerprintVerifyLength(fp, pk) == Len(fp) = Len(FingerprintFromPublicKey(pk))

\* Fingerprint::verify
FingerprintVerify(fp, pk) == fp = FingerprintFromPublicKey(pk)

\* Crypto::generate_identity on the draw `seed`
GenerateIdentity(seed) ==
    LET kp == KxGenKeypair(seed)
    IN  [public_key |-> Base64Encode(kp[1]), secret_key |-> Base64Encode(kp[2])]

\* Crypto::client_session_keys
ClientSessionKeys(client_pk, client_sk, server_pk) ==
    LET r == KxClientSessionKeys(client_pk, client_sk, server_pk)
    IN  IF r.ok THEN Ok([rx |-> r.val[1], tx |-> r.val[2]]) ELSE Err("KeyExchangeError")

\* server_session_keys deriving the keys of the client side
ServerSessionKeysAsClient(server_pk, server_sk, client_pk) ==
    LET r == KxClientSessionKeys(server_pk, server_sk, client_pk)
    IN  IF r.ok THEN Ok([rx |-> r.val[1], tx |-> r.val[2]]) ELSE Err("KeyExchangeError")

\* Crypto::server_session_keys
ServerSessionKeys(server_pk, server_sk, client_pk) ==
    LET r == KxServerSessionKeys(server_pk, server_sk, client_pk)
    IN  IF r.ok THEN Ok([rx |-> r.val[1], tx |-> r.val[2]]) ELSE Err("KeyExchangeError")

\* encrypt sending another nonce than the one it sealed with
EncryptOtherNonce(message, key, seed) ==
    LET nonce == RandomBytes(seed, NONCEBYTES)
        ciphertext == SecretboxSeal(message, nonce, key)
    IN  [nonce |-> Base64Encode(RandomBytes(seed + 1, NONCEBYTES)),
         ciphertext |-> Base64Encode(ciphertext)]

\* encrypt taking its nonce from the message
EncryptNonceOfMessage(message, key, seed) ==
    LET nonce == Mix(6, message, NONCEBYTES)
        ciphertext == SecretboxSeal(message, nonce, key)
    IN  [nonce |-> Base64Encode(nonce), ciphertext |-> Base64Encode(ciphertext)]

\* Crypto::encrypt, gen_nonce() drawing `seed`
Encrypt(message, key, seed) ==
    LET nonce == RandomBytes(seed, NONCEBYTES)
        ciphertext == SecretboxSeal(message, nonce, key)
    IN  [nonce |-> Base64Encode(nonce), ciphertext |-> Base64Encode(ciphertext)]

\* decrypt reporting every failure as DecryptionFailed
DecryptOneError(enc, key) ==
    LET nonceBytes == Base64Decode(enc.nonce)
        nonce == FromSlice(nonceBytes.val, NONCEBYTES)
        ciphertext == Base64Decode(enc.ciphertext)
        opened == SecretboxOpen(ciphertext.val, nonce.val, key)
    IN  IF ~nonceBytes.ok THEN Err("DecryptionFailed")
        ELSE IF ~nonce.ok THEN Err("DecryptionFailed")
        ELSE IF ~ciphertext.ok THEN Err("DecryptionFailed")
        ELSE IF ~opened.ok THEN Err("DecryptionFailed")
        ELSE Ok(opened.val)

\* Crypto::decrypt
Decrypt(enc, key) ==
    LET nonceBytes == Base64Decode(enc.nonce)
        nonce == FromSlice(nonceBytes.val, NONCEBYTES)
        ciphertext == Base64Decode(enc.ciphertext)
        opened == SecretboxOpen(ciphertext.val, nonce.val, key)
    IN  IF ~nonceBytes.ok THEN Err("Base64Error")
        ELSE IF ~nonce.ok THEN Err("InvalidKeyLength")
        ELSE IF ~ciphertext.ok THEN Err("Base64Error")
        ELSE IF ~opened.ok THEN Err("DecryptionFailed")
        ELSE Ok(opened.val)

\* encrypt_with_password packing nonce || salt || ciphertext
EncryptWithPasswordNonceFirst(data, password, saltSeed, nonceSeed) ==
    LET salt_bytes == RandomBytes(saltSeed, 16)
        salt == FromSlice(salt_bytes, SALTBYTES)
        key == Argon2idDeriveKey(password, salt.val)
        nonce == RandomBytes(nonceSeed, NONCEBYTES)
        ciphertext == SecretboxSeal(data, nonce, key.val)
    IN  IF ~salt.ok THEN Err("EncryptionFailed")
        ELSE IF ~key.ok THEN Err("EncryptionFailed")
        ELSE Ok(nonce \o salt_bytes \o ciphertext)

\* Crypto::encrypt_with_password, randombytes(16) drawing saltSeed and
\* gen_nonce() drawing nonceSeed: salt (16) || nonce (24) || ciphertext
EncryptWithPassword(data, password, saltSeed, nonceSeed) ==
    LET salt_bytes == RandomBytes(saltSeed, 16)
        salt == FromSlice(salt_bytes, SALTBYTES)
        key == Argon2idDeriveKey(password, salt.val)
        nonce == RandomBytes(nonceSeed, NONCEBYTES)
        ciphertext == SecretboxSeal(data, nonce, key.val)
    IN  IF ~salt.ok THEN Err("EncryptionFailed")
        ELSE IF ~key.ok THEN Err("EncryptionFailed")
        ELSE Ok(salt_bytes \o nonce \o ciphertext)

\* decrypt_with_password telling a short blob apart from the other failures
DecryptWithPasswordShortBlob(data, password) ==
    IF Len(data) < 16 + 24 THEN Err("InvalidKeyLength")
    ELSE LET salt == FromSlice(Slice(data, 0, 16), SALTBYTES)
             key == Argon2idDeriveKey(password, salt.val)
             nonce == FromSlice(Slice(data, 16, 40), NONCEBYTES)
             opened == SecretboxOpen(Slice(data, 40, Len(data)), nonce.val, key.val)
         IN  IF ~opened.ok THEN Err("DecryptionFailed") ELSE Ok(opened.val)

\* Crypto::decrypt_with_password
DecryptWithPassword(data, password) ==
    IF Len(data) < 16 + 24 THEN Err("DecryptionFailed")
    ELSE LET salt_bytes == Slice(data, 0, 16)
             nonce_bytes == Slice(data, 16, 40)
             ciphertext == Slice(data, 40, Len(data))
             salt == FromSlice(salt_bytes, SALTBYTES)
             key == Argon2idDeriveKey(password, salt.val)
             nonce == FromSlice(nonce_bytes, NONCEBYTES)
             opened == SecretboxOpen(ciphertext, nonce.val, key.val)
         IN  IF ~salt.ok THEN Err("DecryptionFailed")
             ELSE IF ~key.ok THEN Err("DecryptionFailed")
             ELSE IF ~nonce.ok THEN Err("DecryptionFailed")
             ELSE IF ~opened.ok THEN Err("DecryptionFailed")
             ELSE Ok(opened.val)

\* the local buffer `key` of encrypt_with_password when it returns: None on the
\* path that returns before the buffer exists; nothing writes to it after derive_key
EncryptWithPasswordKeyLeft(data, password, saltSeed, nonceSeed) ==
    LET salt == FromSlice(RandomBytes(saltSeed, 16), SALTBYTES)
        key == Argon2idDeriveKey(password, salt.val)
    IN  IF ~salt.ok THEN [some |-> FALSE]
        ELSE IF ~key.ok THEN [some |-> TRUE, val |-> Repeat(0, KEYBYTES)]
        ELSE [some |-> TRUE, val |-> key.val]

\* the local buffer `key` of decrypt_with_password when it returns
DecryptWithPasswordKeyLeft(data, password) ==
    IF Len(data) < 16 + 24 THEN [some |-> FALSE]
    ELSE LET salt == FromSlice(Slice(data, 0, 16), SALTBYTES)
             key == Argon2idDeriveKey(password, salt.val)
         IN  IF ~salt.ok THEN [some |-> FALSE]
             ELSE IF ~key.ok THEN [some |-> TRUE, val |-> Repeat(0, KEYBYTES)]
             ELSE [some |-> TRUE, val |-> key.val]

(***************************************************************************)
(* Padding (ISO/IEC 7816-4).                                               *)
(***************************************************************************)
RECURSIVE ZeroFill(_, _)
\* zero bytes appended until the length is a multiple of block_size
ZeroFill(data, block_size) ==
    IF Len(data) % block_size = 0 THEN data ELSE ZeroFill(Append(data, 0), block_size)

\* apply_padding without the 0x80 delimiter
ApplyPaddingNoMarker(data, block_size) == ZeroFill(data, block_size)

\* apply_padding: one 0x80 delimiter, then zero bytes
ApplyPadding(data, block_size) == ZeroFill(Append(data, 128), block_size)

RECURSIVE LastNonZero(_, _)
\* the backward scan over zero bytes: the index of the last non-zero byte, or 0
LastNonZero(data, i) ==
    IF i = 0 THEN 0 ELSE IF data[i] # 0 THEN i ELSE LastNonZero(data, i - 1)

\* remove_padding: DecryptionFailed unless the scan ends on the 0x80 marker
RemovePadding(data) ==
    LET i == LastNonZero(data, Len(data))
    IN  IF i = 0 \/ data[i] # 128 THEN Err("DecryptionFailed")
        ELSE Ok(SubSeq(data, 1, i - 1))

(***************************************************************************)
(* The inputs of the model.                                                *)
(***************************************************************************)
\* the draws of kx::gen_keypair
Keys == 1..NumKeys

\* the draws of randombytes / gen_nonce
Seeds == 1..NumSeeds

\* the byte strings over `bytes` of length at most n
BytesUpTo(bytes, n) == UNION {[1..k -> bytes] : k \in 0..n}

\* the plaintexts handed to encrypt and encrypt_with_password: "", "A", "B", "AA", ...
Plaintexts == BytesUpTo({65, 66}, MaxLen)

\* the data handed to apply_padding: it may hold the marker and zero bytes itself
PadData == BytesUpTo({0, 65, 66, 128}, MaxPadLen)

\* the passwords "pw1" and "pw2"
Passwords == {<<112, 119, 49>>, <<112, 119, 50>>}

\* the decoded key pair of the identity drawn by `seed`, as test_key_exchange decodes it
DecodedIdentity(seed) ==
    LET id == GenerateIdentity(seed)
    IN  [pk |-> FromSlice(Base64Decode(id.public_key).val, KEYBYTES).val,
         sk |-> FromSlice(Base64Decode(id.secret_key).val, KEYBYTES).val]

\* the session keys of initiator a with responder b, on the side `role`
SessionOf(role, a, b) ==
    LET alice == DecodedIdentity(a)
        bob == DecodedIdentity(b)
    IN  IF role = "client" THEN ClientSessionKeys(alice.pk, alice.sk, bob.pk)
        ELSE ServerSessionKeys(bob.pk, bob.sk, alice.pk)

Peer(role) == IF role = "client" THEN "server" ELSE "client"

\* bs with the byte at position `at` changed
FlipByte(bs, at) == [bs EXCEPT ![at] = (@ + 1) % 256]

(***************************************************************************)
(* The state.                                                              *)
(***************************************************************************)
VARIABLES
    kx,     \* a key exchange between two identities
    sym,    \* a message under a session key: encrypted, altered in transit, decrypted
    pwd,    \* data under a password: encrypted, altered at rest, decrypted
    pad,    \* data padded and unpadded
    protocol,   \* a ChatProtocol
    created,    \* the messages it created, in order
    direct,     \* whether next_sequence was called other than by a create_*_message
    dir_ok,     \* whether SecureStorage::new could create the storage directory
    disk,       \* the files of the storage directory
    call,       \* the last storage operation and its result
    made,       \* the password and fingerprint of the last successful create_identity
    altered,    \* whether the stored fingerprint was altered since
    rejected,   \* whether load_identity rejected a wrong password since
    conn,       \* a P2PConnection
    conn_last,  \* the last operation on it, and the state it found
    thr,        \* the tasks that share the SecureStorage, each inside a contact operation
    life,       \* the last call of the storage API, and what the identity went through
    fpc,        \* a Fingerprint: made, made again from the same key, verified against a key
    wire,       \* a protocol value: made, serialized, read back
    seals,      \* two seal operations, and the draws the random generator has made
    tor,        \* a TorManager and the last call on it
    own,        \* the single task that owns a SecureStorage: its last contact operation
    peers       \* P2PConnections made by P2PConnection::new, by remote address

cryptoVars == <<kx, sym, pwd, pad>>

protocolVars == <<protocol, created, direct>>

storageVars == <<dir_ok, disk, call, made, altered, rejected>>

connectionVars == <<conn, conn_last>>

vars == <<kx, sym, pwd, pad, protocol, created, direct, dir_ok, disk, call, made, altered,
          rejected, conn, conn_last, thr, life, fpc, wire, seals, tor, own, peers>>

NoEnc == [nonce |-> <<>>, ciphertext |-> <<>>]

NoHit == [kind |-> "none", at |-> 0]

InitCrypto ==
    /\ kx = [stage |-> "idle", a |-> 0, b |-> 0, client |-> Err("none"), server |-> Err("none")]
    /\ sym = [stage |-> "idle", a |-> 0, b |-> 0, p |-> <<>>, sender |-> "none", key |-> <<>>,
              enc |-> NoEnc, hit |-> "none", reader |-> "none", res |-> Err("none")]
    /\ pwd = [stage |-> "idle", d |-> <<>>, password |-> <<>>, blob |-> <<>>, hit |-> NoHit,
              dpassword |-> <<>>, res |-> Err("none"), key |-> [some |-> FALSE]]
    /\ pad = [stage |-> "idle", d |-> <<>>, n |-> 0, padded |-> <<>>, res |-> Err("none")]

CryptoIdle ==
    /\ kx.stage = "idle"
    /\ sym.stage = "idle"
    /\ pwd.stage = "idle"
    /\ pad.stage = "idle"

(***************************************************************************)
(* Key exchange: both sides derive their session keys.                     *)
(***************************************************************************)
KeyExchange ==
    /\ CryptoIdle
    /\ \E a \in Keys, b \in Keys :
          kx' = [stage |-> "done", a |-> a, b |-> b,
                 client |-> SessionOf("client", a, b),
                 server |-> SessionOf("server", a, b)]
    /\ UNCHANGED <<sym, pwd, pad, protocolVars, storageVars, connectionVars, thr, life, fpc, wire, seals, tor, own, peers>>

(***************************************************************************)
(* A message sent over a session.                                          *)
(***************************************************************************)
\* the sender encrypts p with its tx key
SymEncrypt ==
    /\ CryptoIdle
    /\ \E a \in Keys, b \in Keys, sender \in {"client", "server"}, p \in Plaintexts,
          seed \in Seeds :
          LET key == SessionOf(sender, a, b).val.tx
          IN  sym' = [sym EXCEPT !.stage = "sealed", !.a = a, !.b = b, !.p = p,
                                 !.sender = sender, !.key = key,
                                 !.enc = Encrypt(p, key, seed)]
    /\ UNCHANGED <<kx, pwd, pad, protocolVars, storageVars, connectionVars, thr, life, fpc, wire, seals, tor, own, peers>>

\* the EncryptedMessage as altered by `hit`
HitEnc(enc, hit) ==
    LET n == Base64Decode(enc.nonce).val
        c == Base64Decode(enc.ciphertext).val
    IN  CASE hit = "ciphertext" -> [enc EXCEPT !.ciphertext = Base64Encode(FlipByte(c, Len(c)))]
          [] hit = "tag" -> [enc EXCEPT !.ciphertext = Base64Encode(FlipByte(c, 1))]
          [] hit = "nonce" -> [enc EXCEPT !.nonce = Base64Encode(FlipByte(n, 1))]
          [] hit = "nonce_length" -> [enc EXCEPT !.nonce = Base64Encode(SubSeq(n, 1, Len(n) - 3))]
          [] hit = "nonce_base64" -> [enc EXCEPT !.nonce = [@ EXCEPT ![1] = 33]]
          [] hit = "ciphertext_base64" ->
                [enc EXCEPT !.ciphertext = SubSeq(@, 1, Len(@) - 1)]

SymHits ==
    {"ciphertext", "tag", "nonce", "nonce_length", "nonce_base64", "ciphertext_base64"}

\* the message is altered in transit
SymTamper ==
    /\ sym.stage = "sealed"
    /\ sym.hit = "none"
    /\ \E hit \in SymHits : sym' = [sym EXCEPT !.hit = hit, !.enc = HitEnc(sym.enc, hit)]
    /\ UNCHANGED <<kx, pwd, pad, protocolVars, storageVars, connectionVars, thr, life, fpc, wire, seals, tor, own, peers>>

\* the peer decrypts with its rx key, or the sender with its own rx key (a wrong key)
SymDecrypt ==
    /\ sym.stage = "sealed"
    /\ \E reader \in {"client", "server"} :
          sym' = [sym EXCEPT !.stage = "opened", !.reader = reader,
                             !.res = Decrypt(sym.enc, SessionOf(reader, sym.a, sym.b).val.rx)]
    /\ UNCHANGED <<kx, pwd, pad, protocolVars, storageVars, connectionVars, thr, life, fpc, wire, seals, tor, own, peers>>

(***************************************************************************)
(* Data kept under a password.                                             *)
(***************************************************************************)
PwdEncrypt ==
    /\ CryptoIdle
    /\ \E d \in Plaintexts, password \in Passwords, saltSeed \in Seeds, nonceSeed \in Seeds :
          pwd' = [pwd EXCEPT !.stage = "sealed", !.d = d, !.password = password,
                             !.blob = EncryptWithPassword(d, password, saltSeed, nonceSeed).val,
                             !.key = EncryptWithPasswordKeyLeft(d, password, saltSeed,
                                                                nonceSeed)]
    /\ UNCHANGED <<kx, sym, pad, protocolVars, storageVars, connectionVars, thr, life, fpc, wire, seals, tor, own, peers>>

\* the ways a stored blob is damaged: cut to `at` bytes, or its byte `at` changed
\* (a byte of the salt, of the nonce, of the tag, of the encrypted data)
PwdHits(blob) ==
    {[kind |-> "cut", at |-> n] : n \in {0, 39, 40, 55, Len(blob) - 1}}
      \cup {[kind |-> "flip", at |-> i] : i \in {1, 16, 17, 40, 41, 56, Len(blob)}}

HitBlob(blob, hit) ==
    IF hit.kind = "cut" THEN SubSeq(blob, 1, hit.at) ELSE FlipByte(blob, hit.at)

PwdTamper ==
    /\ pwd.stage = "sealed"
    /\ pwd.hit.kind = "none"
    /\ \E hit \in PwdHits(pwd.blob) :
          pwd' = [pwd EXCEPT !.hit = hit, !.blob = HitBlob(pwd.blob, hit)]
    /\ UNCHANGED <<kx, sym, pad, protocolVars, storageVars, connectionVars, thr, life, fpc, wire, seals, tor, own, peers>>

PwdDecrypt ==
    /\ pwd.stage = "sealed"
    /\ \E password \in Passwords :
          pwd' = [pwd EXCEPT !.stage = "opened", !.dpassword = password,
                             !.res = DecryptWithPassword(pwd.blob, password),
                             !.key = DecryptWithPasswordKeyLeft(pwd.blob, password)]
    /\ UNCHANGED <<kx, sym, pad, protocolVars, storageVars, connectionVars, thr, life, fpc, wire, seals, tor, own, peers>>

(***************************************************************************)
(* Data padded to a block size, and unpadded.                              *)
(***************************************************************************)
PadApply ==
    /\ CryptoIdle
    /\ \E d \in PadData, n \in 1..MaxBlock :
          pad' = [pad EXCEPT !.stage = "padded", !.d = d, !.n = n,
                             !.padded = ApplyPadding(d, n)]
    /\ UNCHANGED <<kx, sym, pwd, protocolVars, storageVars, connectionVars, thr, life, fpc, wire, seals, tor, own, peers>>

PadRemove ==
    /\ pad.stage = "padded"
    /\ pad' = [pad EXCEPT !.stage = "removed", !.res = RemovePadding(pad.padded)]
    /\ UNCHANGED <<kx, sym, pwd, protocolVars, storageVars, connectionVars, thr, life, fpc, wire, seals, tor, own, peers>>

(***************************************************************************)
(* protocol.rs: ChatProtocol                                               *)
(***************************************************************************)
\* the ASCII code of the lowercase hex digit v
HexChar(v) == IF v < 10 THEN 48 + v ELSE 97 + (v - 10)

\* hex::encode(bs)
HexEncode(bs) ==
    Tuple([k \in 1..(2 * Len(bs)) |->
              LET b == bs[(k + 1) \div 2]
              IN  HexChar(IF k % 2 = 1 THEN b \div 16 ELSE b % 16)])

\* "test.onion"
Senders == {<<116, 101, 115, 116, 46, 111, 110, 105, 111, 110>>}

\* "Hello"
Contents == {<<72, 101, 108, 108, 111>>}

\* "a.txt", 5 bytes, "text/plain"
FileMetadatas ==
    {[name |-> <<97, 46, 116, 120, 116>>, size |-> 5,
      mime_type |-> <<116, 101, 120, 116, 47, 112, 108, 97, 105, 110>>]}

\* the values chrono::Utc::now().timestamp() returns
Times == {1700000000}

None == [some |-> FALSE]

Some(v) == [some |-> TRUE, val |-> v]

\* ChatProtocol::new
ChatProtocolNew ==
    [version |-> 1, max_fragment_size |-> 1024, sequence |-> 0, pending_fragments |-> <<>>]

\* next_sequence returning the counter after the increment
NextSequenceAfter(self) ==
    [self |-> [self EXCEPT !.sequence = @ + 1], seq |-> self.sequence + 1]

\* ChatProtocol::next_sequence: the protocol after the call, and the number returned
NextSequence(self) ==
    [self |-> [self EXCEPT !.sequence = @ + 1], seq |-> self.sequence]

\* ChatProtocol::generate_message_id, the generator drawing `seed`
GenerateMessageId(seed) == HexEncode(RandomBytes(seed, 16))

\* ChatProtocol::create_text_message at time `now`: the protocol after the call
\* and the message
CreateTextMessage(self, sender, content, seed, now) ==
    LET n == NextSequence(self)
    IN  [self |-> n.self,
         msg |-> [id |-> GenerateMessageId(seed), msg_type |-> "Text", sender |-> sender,
                  timestamp |-> now, content |-> content, sequence |-> n.seq,
                  file_metadata |-> None]]

\* ChatProtocol::create_file_message at time `now`
CreateFileMessage(self, sender, content, metadata, seed, now) ==
    LET n == NextSequence(self)
    IN  [self |-> n.self,
         msg |-> [id |-> GenerateMessageId(seed), msg_type |-> "File", sender |-> sender,
                  timestamp |-> now, content |-> content, sequence |-> n.seq,
                  file_metadata |-> Some(metadata)]]

InitProtocol ==
    /\ protocol = ChatProtocolNew
    /\ created = <<>>
    /\ direct = FALSE

\* the sequence counter is a u64: the model stops MaxMsgs calls after ChatProtocol::new
CanCount == protocol.sequence < MaxMsgs

CallNextSequence ==
    /\ CanCount
    /\ protocol' = NextSequence(protocol).self
    /\ direct' = TRUE
    /\ UNCHANGED <<created, cryptoVars, storageVars, connectionVars, thr, life, fpc, wire, seals, tor, own, peers>>

CallCreateTextMessage ==
    /\ CanCount
    /\ \E sender \in Senders, content \in Contents, seed \in Seeds, now \in Times :
          LET r == CreateTextMessage(protocol, sender, content, seed, now)
          IN  /\ protocol' = r.self
              /\ created' = Append(created, r.msg)
    /\ UNCHANGED <<direct, cryptoVars, storageVars, connectionVars, thr, life, fpc, wire, seals, tor, own, peers>>

CallCreateFileMessage ==
    /\ CanCount
    /\ \E sender \in Senders, content \in Contents, metadata \in FileMetadatas,
          seed \in Seeds, now \in Times :
          LET r == CreateFileMessage(protocol, sender, content, metadata, seed, now)
          IN  /\ protocol' = r.self
              /\ created' = Append(created, r.msg)
    /\ UNCHANGED <<direct, cryptoVars, storageVars, connectionVars, thr, life, fpc, wire, seals, tor, own, peers>>

(***************************************************************************)
(* serde_json, for the structs whose fields are all strings.  The strings  *)
(* of the model (base64 text, field names) hold no character that JSON     *)
(* escapes.                                                                *)
(***************************************************************************)
\* "name":"value", with `sep` after the colon
JsonField(field, sep) == <<34>> \o field[1] \o <<34, 58>> \o sep \o <<34>> \o field[2] \o <<34>>

RECURSIVE JsonFields(_, _, _, _)
\* the fields from the i-th on, `between` between two of them
JsonFields(fields, i, between, sep) ==
    IF i > Len(fields) THEN <<>>
    ELSE JsonField(fields[i], sep)
           \o (IF i < Len(fields) THEN between ELSE <<>>)
           \o JsonFields(fields, i + 1, between, sep)

\* serde_json::to_string: {"a":"x","b":"y"}
JsonToString(fields) == <<123>> \o JsonFields(fields, 1, <<44>>, <<>>) \o <<125>>

\* serde_json::to_string_pretty: one field per line, indented by two spaces
JsonToStringPretty(fields) ==
    IF Len(fields) = 0 THEN <<123, 125>>
    ELSE <<123, 10, 32, 32>> \o JsonFields(fields, 1, <<44, 10, 32, 32>>, <<32>>)
           \o <<10, 125>>

IsJsonWhitespace(c) == c \in {32, 10, 13, 9}

IsJsonSyntax(c) == ~IsJsonWhitespace(c)

\* serde_json::from_str of an object of string fields: the <<name, value>> pairs
\* in the order of the text, or Err
JsonParse(s) ==
    LET quotes == {i \in 1..Len(s) : s[i] = 34}
        nq == Cardinality(quotes)
        n == nq \div 4
        q(k) == CHOOSE i \in quotes : Cardinality({j \in quotes : j < i}) = k - 1
        \* the syntax between positions a and b, outside the strings
        gap(a, b) == SelectSeq(SubSeq(s, a + 1, b - 1), IsJsonSyntax)
        wellFormed ==
            /\ nq % 4 = 0
            /\ \A i \in 1..Len(s) : s[i] # 92
            /\ IF n = 0 THEN gap(0, Len(s) + 1) = <<123, 125>>
               ELSE /\ gap(0, q(1)) = <<123>>
                    /\ gap(q(nq), Len(s) + 1) = <<125>>
                    /\ \A f \in 1..n :
                          /\ gap(q(4 * f - 2), q(4 * f - 1)) = <<58>>
                          /\ f < n => gap(q(4 * f), q(4 * f + 1)) = <<44>>
    IN  IF ~wellFormed THEN Err("syntax")
        ELSE Ok([f \in 1..n |->
                    <<SubSeq(s, q(4 * f - 3) + 1, q(4 * f - 2) - 1),
                      SubSeq(s, q(4 * f - 1) + 1, q(4 * f) - 1)>>])

\* the value of the struct field `name`: Err when missing or given twice
JsonGet(fields, name) ==
    LET at == {f \in 1..Len(fields) : fields[f][1] = name}
    IN  IF Cardinality(at) # 1 THEN Err("field")
        ELSE Ok(fields[CHOOSE f \in at : TRUE][2])

PUBLIC_KEY == <<112, 117, 98, 108, 105, 99, 95, 107, 101, 121>>

SECRET_KEY == <<115, 101, 99, 114, 101, 116, 95, 107, 101, 121>>

FINGERPRINT == <<102, 105, 110, 103, 101, 114, 112, 114, 105, 110, 116>>

ENCRYPTED_DATA == <<101, 110, 99, 114, 121, 112, 116, 101, 100, 95, 100, 97, 116, 97>>

\* Serialize for IdentityKeyPair
IdentityKeyPairFields(keypair) ==
    <<<<PUBLIC_KEY, keypair.public_key>>, <<SECRET_KEY, keypair.secret_key>>>>

\* Deserialize for IdentityKeyPair
IdentityKeyPairFrom(text) ==
    LET parsed == JsonParse(text)
        pk == JsonGet(parsed.val, PUBLIC_KEY)
        sk == JsonGet(parsed.val, SECRET_KEY)
    IN  IF ~parsed.ok \/ ~pk.ok \/ ~sk.ok THEN Err("SerializationError")
        ELSE Ok([public_key |-> pk.val, secret_key |-> sk.val])

\* Serialize for SecureIdentity
SecureIdentityFields(secure_id) ==
    <<<<FINGERPRINT, secure_id.fingerprint>>, <<ENCRYPTED_DATA, secure_id.encrypted_data>>>>

\* Deserialize for SecureIdentity
SecureIdentityFrom(text) ==
    LET parsed == JsonParse(text)
        fp == JsonGet(parsed.val, FINGERPRINT)
        data == JsonGet(parsed.val, ENCRYPTED_DATA)
    IN  IF ~parsed.ok \/ ~fp.ok \/ ~data.ok THEN Err("SerializationError")
        ELSE Ok([fingerprint |-> fp.val, encrypted_data |-> data.val])

(***************************************************************************)
(* storage.rs: SecureStorage                                               *)
(***************************************************************************)
Absent == [exists |-> FALSE, content |-> <<>>]

File(content) == [exists |-> TRUE, content |-> content]

\* the fingerprint of the base64 public key of a key pair, or EncryptionError
FingerprintOfKeypair(keypair) ==
    LET pk_bytes == Base64Decode(keypair.public_key)
        pk == FromSlice(pk_bytes.val, KEYBYTES)
    IN  IF ~pk_bytes.ok THEN Err("EncryptionError")
        ELSE IF ~pk.ok THEN Err("EncryptionError")
        ELSE Ok(FingerprintFromPublicKey(pk.val))

\* fs::write(path, content): IoError when the directory is missing
FsWrite(files, dirOk, path, content) ==
    IF dirOk THEN [disk |-> [files EXCEPT ![path] = File(content)], res |-> Ok(<<>>)]
    ELSE [disk |-> files, res |-> Err("IoError")]

\* SecureStorage::has_identity
HasIdentity(files) == files["identity.enc"].exists

\* SecureStorage::create_identity_with_keypair: the disk after the call and the result
CreateIdentityWithKeypair(files, dirOk, keypair, password, saltSeed, nonceSeed) ==
    LET fingerprint == FingerprintOfKeypair(keypair)
        plain == JsonToString(IdentityKeyPairFields(keypair))
        encrypted == EncryptWithPassword(plain, password, saltSeed, nonceSeed)
        secure_id == [fingerprint |-> fingerprint.val,
                      encrypted_data |-> Base64Encode(encrypted.val)]
        content == JsonToStringPretty(SecureIdentityFields(secure_id))
        written == FsWrite(files, dirOk, "identity.enc", content)
    IN  IF ~fingerprint.ok THEN [disk |-> files, res |-> fingerprint]
        ELSE IF ~encrypted.ok THEN [disk |-> files, res |-> Err("EncryptionError")]
        ELSE IF ~written.res.ok THEN [disk |-> files, res |-> written.res]
        ELSE [disk |-> written.disk, res |-> Ok(fingerprint.val)]

\* create_identity returning the fingerprint of the secret key
CreateIdentitySecretFingerprint(files, dirOk, password, keySeed, saltSeed, nonceSeed) ==
    LET keypair == GenerateIdentity(keySeed)
        r == CreateIdentityWithKeypair(files, dirOk, keypair, password, saltSeed, nonceSeed)
    IN  IF ~r.res.ok THEN r
        ELSE [r EXCEPT !.res =
                 Ok(FingerprintFromPublicKey(Base64Decode(keypair.secret_key).val))]

\* SecureStorage::create_identity, generate_identity drawing keySeed: after it, the
\* statements of create_identity_with_keypair
CreateIdentity(files, dirOk, password, keySeed, saltSeed, nonceSeed) ==
    CreateIdentityWithKeypair(files, dirOk, GenerateIdentity(keySeed), password,
                              saltSeed, nonceSeed)

\* load_identity reporting a failed decryption as an encryption error
LoadIdentityDecryptError(files, password) ==
    LET file == files["identity.enc"]
        secure_id == SecureIdentityFrom(file.content)
        encrypted == Base64Decode(secure_id.val.encrypted_data)
        plain == DecryptWithPassword(encrypted.val, password)
        keypair == IdentityKeyPairFrom(plain.val)
        fp == FingerprintOfKeypair(keypair.val)
    IN  IF ~file.exists THEN Err("IdentityNotFound")
        ELSE IF ~secure_id.ok THEN Err("SerializationError")
        ELSE IF ~encrypted.ok THEN Err("EncryptionError")
        ELSE IF ~plain.ok THEN Err("EncryptionError")
        ELSE IF ~keypair.ok THEN Err("SerializationError")
        ELSE IF ~fp.ok THEN fp
        ELSE IF fp.val # secure_id.val.fingerprint THEN Err("FingerprintMismatch")
        ELSE Ok(keypair.val)

\* load_identity without the comparison of the fingerprints
LoadIdentityUnverified(files, password) ==
    LET file == files["identity.enc"]
        secure_id == SecureIdentityFrom(file.content)
        encrypted == Base64Decode(secure_id.val.encrypted_data)
        plain == DecryptWithPassword(encrypted.val, password)
        keypair == IdentityKeyPairFrom(plain.val)
    IN  IF ~file.exists THEN Err("IdentityNotFound")
        ELSE IF ~secure_id.ok THEN Err("SerializationError")
        ELSE IF ~encrypted.ok THEN Err("EncryptionError")
        ELSE IF ~plain.ok THEN Err("InvalidPassword")
        ELSE IF ~keypair.ok THEN Err("SerializationError")
        ELSE Ok(keypair.val)

\* SecureStorage::load_identity
LoadIdentity(files, password) ==
    LET file == files["identity.enc"]
        secure_id == SecureIdentityFrom(file.content)
        encrypted == Base64Decode(secure_id.val.encrypted_data)
        plain == DecryptWithPassword(encrypted.val, password)
        keypair == IdentityKeyPairFrom(plain.val)
        fp == FingerprintOfKeypair(keypair.val)
    IN  IF ~file.exists THEN Err("IdentityNotFound")
        ELSE IF ~secure_id.ok THEN Err("SerializationError")
        ELSE IF ~encrypted.ok THEN Err("EncryptionError")
        ELSE IF ~plain.ok THEN Err("InvalidPassword")
        ELSE IF ~keypair.ok THEN Err("SerializationError")
        ELSE IF ~fp.ok THEN fp
        ELSE IF fp.val # secure_id.val.fingerprint THEN Err("FingerprintMismatch")
        ELSE Ok(keypair.val)

StorageFiles == {"identity.enc", "contacts.json"}

InitStorage ==
    /\ dir_ok \in BOOLEAN
    /\ disk = [f \in StorageFiles |-> Absent]
    /\ call = [op |-> "none", password |-> <<>>, res |-> Err("none"), before |-> disk]
    /\ made = [valid |-> FALSE, password |-> <<>>, fingerprint |-> <<>>]
    /\ altered = FALSE
    /\ rejected = FALSE

\* main: an identity is created only when the storage has none
CallCreateIdentity ==
    \E password \in Passwords, keySeed \in Keys, saltSeed \in Seeds, nonceSeed \in Seeds :
       LET r == CreateIdentity(disk, dir_ok, password, keySeed, saltSeed, nonceSeed)
       IN  /\ ~HasIdentity(disk)
           /\ disk' = r.disk
           /\ call' = [op |-> "create_identity", password |-> password, res |-> r.res,
                       before |-> disk]
           /\ IF r.res.ok
              THEN /\ made' = [valid |-> TRUE, password |-> password,
                               fingerprint |-> r.res.val]
                   /\ altered' = FALSE
                   /\ rejected' = FALSE
              ELSE UNCHANGED <<made, altered, rejected>>
           /\ UNCHANGED <<dir_ok, cryptoVars, protocolVars, connectionVars, thr, life, fpc, wire, seals, tor, own, peers>>

CallLoadIdentity ==
    \E password \in Passwords :
       LET res == LoadIdentity(disk, password)
       IN  /\ call' = [op |-> "load_identity", password |-> password, res |-> res,
                       before |-> disk]
           /\ rejected' = (rejected \/ (~res.ok /\ res.err = "InvalidPassword"))
           /\ UNCHANGED <<dir_ok, disk, made, altered, cryptoVars, protocolVars, connectionVars, thr, life, fpc, wire, seals, tor, own, peers>>

\* another fingerprint than fp: that of a key pair, or fp with its first character changed
OtherFingerprints(fp) ==
    ({FingerprintOfKeypair(GenerateIdentity(k)).val : k \in Keys}
       \cup {[fp EXCEPT ![1] = IF @ = 65 THEN 66 ELSE 65]}) \ {fp}

\* the clear fingerprint of identity.enc is altered on disk, the encrypted data left intact
AlterFingerprint ==
    /\ disk["identity.enc"].exists
    /\ ~altered
    /\ LET secure_id == SecureIdentityFrom(disk["identity.enc"].content).val
       IN  \E fp \in OtherFingerprints(secure_id.fingerprint) :
              disk' = [disk EXCEPT !["identity.enc"] =
                         File(JsonToStringPretty(SecureIdentityFields(
                                [secure_id EXCEPT !.fingerprint = fp])))]
    /\ altered' = TRUE
    /\ call' = [op |-> "alter_fingerprint", password |-> <<>>, res |-> Ok(<<>>),
                before |-> disk]
    /\ UNCHANGED <<dir_ok, made, rejected, cryptoVars, protocolVars, connectionVars, thr, life, fpc, wire, seals, tor, own, peers>>

(***************************************************************************)
(* serde_json, for Vec<StoredContact>.                                     *)
(***************************************************************************)
\* the elements of a set S of integers within lo..hi, ascending
Ascending(S, lo, hi) ==
    LET member(i) == i \in S
    IN  SelectSeq(Tuple([k \in 1..(hi - lo + 1) |-> lo + k - 1]), member)

\* 10^k for k in 0..9
Pow10(k) ==
    CASE k = 0 -> 1 [] k = 1 -> 10 [] k = 2 -> 100 [] k = 3 -> 1000 [] k = 4 -> 10000
      [] k = 5 -> 100000 [] k = 6 -> 1000000 [] k = 7 -> 10000000 [] k = 8 -> 100000000
      [] k = 9 -> 1000000000

\* the JSON text of the integer n, for the timestamps of the model (below 2^31)
ToDecimal(n) ==
    LET m == IF n < 0 THEN 0 - n ELSE n
        d == CHOOSE k \in 1..10 : m \div Pow10(k - 1) \in (IF k = 1 THEN 0..9 ELSE 1..9)
        digits == Tuple([i \in 1..d |-> 48 + ((m \div Pow10(d - i)) % 10)])
    IN  IF n < 0 THEN <<45>> \o digits ELSE digits

RECURSIVE DigitsValue(_, _)
\* the number the first n of the digits ds spell
DigitsValue(ds, n) ==
    IF n = 0 THEN 0 ELSE 10 * DigitsValue(ds, n - 1) + (ds[n] - 48)

\* the integer a JSON number text stands for: Err on anything but an optional
\* sign and digits without a leading zero, and past the timestamps of the model
ParseDecimal(t) ==
    LET neg == Len(t) > 0 /\ t[1] = 45
        ds == IF neg THEN SubSeq(t, 2, Len(t)) ELSE t
        d == Len(ds)
    IN  IF d = 0 \/ \E i \in 1..d : ds[i] < 48 \/ ds[i] > 57 THEN Err("number")
        ELSE IF d > 1 /\ ds[1] = 48 THEN Err("number")
        ELSE IF d > 10 \/ (d = 10 /\ ds[1] # 49) THEN Err("range")
        ELSE Ok(IF neg THEN 0 - DigitsValue(ds, d) ELSE DigitsValue(ds, d))

ADDRESS == <<97, 100, 100, 114, 101, 115, 115>>

NICKNAME == <<110, 105, 99, 107, 110, 97, 109, 101>>

ADDED_AT == <<97, 100, 100, 101, 100, 95, 97, 116>>

\* "name": value, indented by four spaces
ContactMember(name, value) == <<32, 32, 32, 32, 34>> \o name \o <<34, 58, 32>> \o value

JsonString(str) == <<34>> \o str \o <<34>>

\* Serialize for StoredContact, as an element of a pretty-printed array
StoredContactJson(c) ==
    <<32, 32, 123, 10>>
      \o ContactMember(ADDRESS, JsonString(c.address)) \o <<44, 10>>
      \o ContactMember(NICKNAME, JsonString(c.nickname)) \o <<44, 10>>
      \o ContactMember(FINGERPRINT, JsonString(c.fingerprint)) \o <<44, 10>>
      \o ContactMember(ADDED_AT, ToDecimal(c.added_at)) \o <<10, 32, 32, 125>>

RECURSIVE StoredContactsJson(_, _)
\* the elements from the i-th on, one after the other
StoredContactsJson(contacts, i) ==
    IF i > Len(contacts) THEN <<>>
    ELSE StoredContactJson(contacts[i])
           \o (IF i < Len(contacts) THEN <<44, 10>> ELSE <<>>)
           \o StoredContactsJson(contacts, i + 1)

\* serde_json::to_string_pretty(contacts)
ContactsToStringPretty(contacts) ==
    IF Len(contacts) = 0 THEN <<91, 93>>
    ELSE <<91, 10>> \o StoredContactsJson(contacts, 1) \o <<10, 93>>

\* one member of an object, "key": value, in the text s: sk is the text without
\* white space and without the inside of its strings, pos the places its
\* characters come from, a..b the member's part of sk
JsonMember(s, sk, pos, a, b) ==
    IF b < a + 3 \/ sk[a] # 34 \/ sk[a + 1] # 34 \/ sk[a + 2] # 58 THEN Err("member")
    ELSE LET key == SubSeq(s, pos[a] + 1, pos[a + 1] - 1)
         IN  IF sk[a + 3] = 34
             THEN IF b = a + 4 /\ sk[b] = 34
                  THEN Ok([key |-> key, string |-> TRUE,
                           val |-> SubSeq(s, pos[a + 3] + 1, pos[b] - 1)])
                  ELSE Err("member")
             ELSE LET number == ParseDecimal(SubSeq(sk, a + 3, b))
                  IN  IF pos[b] - pos[a + 3] # b - (a + 3) \/ ~number.ok THEN Err("member")
                      ELSE Ok([key |-> key, string |-> FALSE, val |-> number.val])

\* the members of the object whose braces are at o and c of sk
JsonObject(s, sk, pos, o, c) ==
    LET commas == Ascending({i \in (o + 1)..(c - 1) : sk[i] = 44}, o + 1, c - 1)
        n == Len(commas) + 1
        from(m) == IF m = 1 THEN o + 1 ELSE commas[m - 1] + 1
        to(m) == IF m = n THEN c - 1 ELSE commas[m] - 1
        members == Tuple([m \in 1..n |-> JsonMember(s, sk, pos, from(m), to(m))])
    IN  IF c = o + 1 THEN Ok(<<>>)
        ELSE IF \E m \in 1..n : ~members[m].ok THEN Err("object")
        ELSE Ok(Tuple([m \in 1..n |-> members[m].val]))

\* Deserialize for StoredContact: every field once and of its type, other
\* members ignored
StoredContactFrom(members) ==
    LET at(name, string) ==
            {m \in 1..Len(members) : members[m].key = name /\ members[m].string = string}
        named(name) == {m \in 1..Len(members) : members[m].key = name}
        one(name, string) == Cardinality(named(name)) = 1 /\ at(name, string) = named(name)
        get(name, string) == members[CHOOSE m \in at(name, string) : TRUE].val
    IN  IF one(ADDRESS, TRUE) /\ one(NICKNAME, TRUE) /\ one(FINGERPRINT, TRUE)
             /\ one(ADDED_AT, FALSE)
        THEN Ok([address |-> get(ADDRESS, TRUE), nickname |-> get(NICKNAME, TRUE),
                 fingerprint |-> get(FINGERPRINT, TRUE), added_at |-> get(ADDED_AT, FALSE)])
        ELSE Err("field")

\* serde_json::from_str::<Vec<StoredContact>>(s)
ContactsFromStr(s) ==
    LET quotes == {i \in 1..Len(s) : s[i] = 34}
        inString(i) == Cardinality({q \in quotes : q < i}) % 2 = 1
        pos == Ascending({i \in 1..Len(s) :
                            s[i] = 34 \/ (~inString(i) /\ ~IsJsonWhitespace(s[i]))},
                         1, Len(s))
        sk == Tuple([k \in 1..Len(pos) |-> s[pos[k]]])
        n == Len(sk)
        opens == Ascending({k \in 1..n : sk[k] = 123}, 1, n)
        closes == Ascending({k \in 1..n : sk[k] = 125}, 1, n)
        count == Len(opens)
        shaped ==
            /\ Cardinality(quotes) % 2 = 0
            /\ \A i \in 1..Len(s) : s[i] # 92
            /\ n >= 2 /\ sk[1] = 91 /\ sk[n] = 93
            /\ Len(closes) = count
            /\ IF count = 0 THEN n = 2
               ELSE /\ opens[1] = 2
                    /\ closes[count] = n - 1
                    /\ \A j \in 1..count : opens[j] < closes[j]
                    /\ \A j \in 1..(count - 1) :
                          closes[j] + 2 = opens[j + 1] /\ sk[closes[j] + 1] = 44
        objects == Tuple([j \in 1..count |-> JsonObject(s, sk, pos, opens[j], closes[j])])
        contacts == Tuple([j \in 1..count |-> StoredContactFrom(objects[j].val)])
    IN  IF ~shaped THEN Err("syntax")
        ELSE IF \E j \in 1..count : ~objects[j].ok THEN Err("syntax")
        ELSE IF \E j \in 1..count : ~contacts[j].ok THEN Err("data")
        ELSE Ok(Tuple([j \in 1..count |-> contacts[j].val]))

(***************************************************************************)
(* storage.rs: the contact list                                            *)
(***************************************************************************)
\* SecureStorage::load_contacts
LoadContacts(files) ==
    IF ~files["contacts.json"].exists THEN Ok(<<>>)
    ELSE CHOOSE loaded \in {IF ~contacts.ok THEN Err("SerializationError") ELSE Ok(contacts.val) :
                               contacts \in {ContactsFromStr(files["contacts.json"].content)}} :
            TRUE

\* SecureStorage::save_contacts: the disk after the call and the result
SaveContacts(files, dirOk, contacts) ==
    FsWrite(files, dirOk, "contacts.json", ContactsToStringPretty(contacts))

\* contacts.iter().any(|c| c.address == address)
AnyAddress(contacts, address) == \E i \in 1..Len(contacts) : contacts[i].address = address

\* the contact add_contact builds at time `now`
NewStoredContact(address, nickname, fingerprint, now) ==
    [address |-> address, nickname |-> nickname, fingerprint |-> fingerprint,
     added_at |-> now]

\* add_contact adding a second entry for an address the list has
AddContactLoadedAgain(files, dirOk, contacts, address, nickname, fingerprint, now) ==
    SaveContacts(files, dirOk,
                 Append(contacts, NewStoredContact(address, nickname, fingerprint, now)))

\* add_contact loading the list again before it saves
AddContactLoadedFresh(files, dirOk, contacts, address, nickname, fingerprint, now) ==
    LET fresh == LoadContacts(files).val
    IN  IF AnyAddress(fresh, address) THEN [disk |-> files, res |-> Ok(<<>>)]
        ELSE SaveContacts(files, dirOk,
                          Append(fresh, NewStoredContact(address, nickname, fingerprint, now)))

\* SecureStorage::add_contact after its load_contacts returned `contacts`
AddContactLoaded(files, dirOk, contacts, address, nickname, fingerprint, now) ==
    IF AnyAddress(contacts, address) THEN [disk |-> files, res |-> Ok(<<>>)]
    ELSE SaveContacts(files, dirOk,
                      Append(contacts, NewStoredContact(address, nickname, fingerprint, now)))

\* retain that stops at the first entry with the address
RetainBefore(contacts, address) ==
    LET at == {i \in 1..Len(contacts) : contacts[i].address = address}
    IN  IF at = {} THEN contacts
        ELSE SubSeq(contacts, 1, (CHOOSE i \in at : \A j \in at : i <= j) - 1)

\* contacts.retain(|c| c.address != address)
RetainOthers(contacts, address) ==
    LET keep == Ascending({i \in 1..Len(contacts) : contacts[i].address # address},
                         1, Len(contacts))
    IN  Tuple([k \in 1..Len(keep) |-> contacts[keep[k]]])

\* SecureStorage::remove_contact after its load_contacts returned `contacts`
RemoveContactLoaded(files, dirOk, contacts, address) ==
    SaveContacts(files, dirOk, RetainOthers(contacts, address))

\* SecureStorage::add_contact, uninterrupted
AddContact(files, dirOk, address, nickname, fingerprint, now) ==
    CHOOSE out \in {IF ~contacts.ok THEN [disk |-> files, res |-> contacts]
                    ELSE AddContactLoaded(files, dirOk, contacts.val, address, nickname,
                                          fingerprint, now) :
                       contacts \in {LoadContacts(files)}} : TRUE

\* SecureStorage::find_contact
FindContact(files, address) ==
    CHOOSE found \in {IF ~contacts.ok \/ ~AnyAddress(contacts.val, address) THEN None
                      ELSE Some(contacts.val[CHOOSE i \in 1..Len(contacts.val) :
                                               /\ contacts.val[i].address = address
                                               /\ \A j \in 1..(i - 1) :
                                                     contacts.val[j].address # address]) :
                         contacts \in {LoadContacts(files)}} : TRUE

(***************************************************************************)
(* Contact operations of the tasks that share one SecureStorage            *)
(* (AppState::storage is an Arc<SecureStorage>; its methods take &self and *)
(* no lock).  An operation is two steps on the file system: load_contacts, *)
(* then save_contacts.                                                     *)
(***************************************************************************)
Threads == {"t1", "t2"}

\* "a.onion", "b.onion"
ContactAddresses == {<<97, 46, 111, 110, 105, 111, 110>>, <<98, 46, 111, 110, 105, 111, 110>>}

\* the nickname a task gives its contacts: "Al", "Bo"
ThreadNickname(t) == IF t = "t1" THEN <<65, 108>> ELSE <<66, 111>>

ContactNicknames == {ThreadNickname(t) : t \in Threads}

\* "fp1"
ContactFingerprints == {<<102, 112, 49>>}

IdleThread ==
    [pc |-> "idle", op |-> "none", address |-> <<>>, nickname |-> <<>>, fingerprint |-> <<>>,
     contacts |-> <<>>, found |-> FALSE, stale |-> FALSE, res |-> Err("none")]

InitContacts == thr = [t \in Threads |-> IdleThread]

\* task t enters `op` and runs its load_contacts
ContactLoad(t, op, address, nickname, fingerprint) ==
    LET loaded == LoadContacts(disk)
        entered == [IdleThread EXCEPT !.op = op, !.address = address, !.nickname = nickname,
                                      !.fingerprint = fingerprint]
    IN  /\ thr[t].pc \in {"idle", "done"}
        /\ thr' = [thr EXCEPT ![t] =
                      IF loaded.ok
                      THEN [entered EXCEPT !.pc = "loaded", !.contacts = loaded.val]
                      ELSE [entered EXCEPT !.pc = "done", !.res = loaded]]
        /\ UNCHANGED <<cryptoVars, protocolVars, storageVars, connectionVars, life, fpc, wire, seals, tor, own, peers>>

\* after task t wrote contacts.json, what the other tasks loaded is out of date
Written(t, wrote) ==
    [u \in Threads |->
        IF u # t /\ wrote /\ thr[u].pc = "loaded" THEN [thr[u] EXCEPT !.stale = TRUE]
        ELSE thr[u]]

\* task t runs the rest of its operation, from the list it loaded
ContactSave(t, op, r) ==
    /\ thr[t].pc = "loaded"
    /\ thr[t].op = op
    /\ disk' = r.disk
    /\ thr' = [Written(t, disk' # disk) EXCEPT
                  ![t] = [@ EXCEPT !.pc = "done", !.res = r.res, !.contacts = <<>>,
                                   !.found = AnyAddress(thr[t].contacts, thr[t].address)]]
    /\ UNCHANGED <<dir_ok, call, made, altered, rejected, cryptoVars, protocolVars,
                   connectionVars, life, fpc, wire, seals, tor, own, peers>>

AddContactLoad ==
    \E t \in Threads, address \in ContactAddresses, fingerprint \in ContactFingerprints :
       ContactLoad(t, "add_contact", address, ThreadNickname(t), fingerprint)

AddContactSave ==
    \E t \in Threads, now \in Times :
       ContactSave(t, "add_contact",
                   AddContactLoaded(disk, dir_ok, thr[t].contacts, thr[t].address,
                                    thr[t].nickname, thr[t].fingerprint, now))

RemoveContactLoad ==
    \E t \in Threads, address \in ContactAddresses :
       ContactLoad(t, "remove_contact", address, <<>>, <<>>)

RemoveContactSave ==
    \E t \in Threads :
       ContactSave(t, "remove_contact",
                   RemoveContactLoaded(disk, dir_ok, thr[t].contacts, thr[t].address))

(***************************************************************************)
(* Contact operations of a single owning task: each call of add_contact or *)
(* remove_contact ends before the next one begins.                         *)
(***************************************************************************)
\* remove_contact that saves the list as it loaded it
RemoveContactKeepsAll(files, dirOk, address) ==
    CHOOSE out \in {IF ~contacts.ok THEN [disk |-> files, res |-> contacts]
                    ELSE SaveContacts(files, dirOk, contacts.val) :
                       contacts \in {LoadContacts(files)}} : TRUE

\* SecureStorage::remove_contact, uninterrupted
RemoveContact(files, dirOk, address) ==
    CHOOSE out \in {IF ~contacts.ok THEN [disk |-> files, res |-> contacts]
                    ELSE RemoveContactLoaded(files, dirOk, contacts.val, address) :
                       contacts \in {LoadContacts(files)}} : TRUE

\* "a.onion", "b.onion", "c.onion"
OwnerAddresses == ContactAddresses \cup {<<99, 46, 111, 110, 105, 111, 110>>}

InitOwner ==
    own = [last |-> [a \in OwnerAddresses |-> "none"], op |-> "none", address |-> <<>>,
           found |-> FALSE, res |-> Err("none")]

\* the owner's record after a call: a call that returned Ok is the last
\* operation on its address; `found` tells whether the list had the address
Owned(op, address, res) ==
    [last |-> IF res.ok THEN [own.last EXCEPT ![address] = op] ELSE own.last,
     op |-> op, address |-> address, found |-> FindContact(disk, address).some, res |-> res]

OwnerAddContact ==
    \E address \in OwnerAddresses, nickname \in ContactNicknames,
       fingerprint \in ContactFingerprints, now \in Times :
       \E r \in {AddContact(disk, dir_ok, address, nickname, fingerprint, now)} :
          /\ disk' = r.disk
          /\ own' = Owned("add_contact", address, r.res)
          /\ UNCHANGED <<dir_ok, call, made, altered, rejected, cryptoVars, protocolVars,
                         connectionVars, thr, life, fpc, wire, seals, tor, peers>>

OwnerRemoveContact ==
    \E address \in OwnerAddresses :
       \E r \in {RemoveContact(disk, dir_ok, address)} :
          /\ disk' = r.disk
          /\ own' = Owned("remove_contact", address, r.res)
          /\ UNCHANGED <<dir_ok, call, made, altered, rejected, cryptoVars, protocolVars,
                         connectionVars, thr, life, fpc, wire, seals, tor, peers>>

(***************************************************************************)
(* storage.rs: the life of the stored identity, under any sequence of      *)
(* calls of the public methods of SecureStorage.                           *)
(***************************************************************************)
\* change_password that returns Ok and leaves the file as it is
ChangePasswordUnsaved(files, dirOk, old_password, new_password, saltSeed, nonceSeed) ==
    CHOOSE out \in {[disk |-> files, res |-> IF loaded.ok THEN Ok(<<>>) ELSE loaded] :
                       loaded \in {LoadIdentity(files, old_password)}} : TRUE

\* SecureStorage::change_password: the disk after the call and the result
ChangePassword(files, dirOk, old_password, new_password, saltSeed, nonceSeed) ==
    LET loaded == LoadIdentity(files, old_password)
    IN  IF ~loaded.ok THEN [disk |-> files, res |-> loaded]
        ELSE CHOOSE out \in {IF ~r.res.ok THEN r ELSE [disk |-> r.disk, res |-> Ok(<<>>)] :
                                r \in {CreateIdentityWithKeypair(files, dirOk, loaded.val,
                                                                 new_password, saltSeed,
                                                                 nonceSeed)}} : TRUE

ZERO_BLOCK == 4096

\* file.write_all(&[0u8; 4096]) on the file opened for writing: the first 4096
\* bytes are replaced or added, the rest is kept
WriteZeroBlock(content) == Repeat(0, ZERO_BLOCK) \o SubSeq(content, ZERO_BLOCK + 1, Len(content))

\* wipe_all removing contacts.json only
WipeAllContactsOnly(files) ==
    [disk |-> [files EXCEPT !["contacts.json"] = Absent],
     res |-> Ok(<<>>),
     unlinked |-> [f \in StorageFiles |->
                     IF f = "contacts.json" /\ files[f].exists THEN Some(files[f].content)
                     ELSE None]]

\* SecureStorage::wipe_all: the disk after the call, the result, and what each
\* file held when it was removed
WipeAll(files) ==
    LET identity == files["identity.enc"]
        contacts == files["contacts.json"]
    IN  [disk |-> [f \in StorageFiles |-> Absent],
         res |-> Ok(<<>>),
         unlinked |-> [f \in StorageFiles |->
                         IF f = "identity.enc" /\ identity.exists
                         THEN Some(WriteZeroBlock(identity.content))
                         ELSE IF f = "contacts.json" /\ contacts.exists
                         THEN Some(contacts.content)
                         ELSE None]]

NotUnlinked == [f \in StorageFiles |-> "none"]

FreshLife ==
    [op |-> "none", password |-> <<>>, old_password |-> <<>>, res |-> Err("none"),
     first |-> None, wiped |-> FALSE, unlinked |-> NotUnlinked]

InitLife == life = FreshLife

\* the draw of salt and nonce in the calls below: the life of the identity
\* does not depend on it
LifeSeed == CHOOSE seed \in Seeds : TRUE

\* create_identity called on the storage as it is, as test_identity_creation_and_load does
ApiCreateIdentity ==
    \E password \in Passwords, keySeed \in Keys :
       \E r \in {CreateIdentity(disk, dir_ok, password, keySeed, LifeSeed, LifeSeed)} :
           /\ disk' = r.disk
           /\ life' = [life EXCEPT
                          !.op = "create_identity", !.password = password,
                          !.old_password = <<>>, !.res = r.res,
                          !.unlinked = NotUnlinked,
                          !.wiped = IF r.res.ok THEN FALSE ELSE @,
                          !.first = IF r.res.ok /\ ~life.first.some
                                    THEN Some(GenerateIdentity(keySeed)) ELSE @]
           /\ UNCHANGED <<dir_ok, call, made, altered, rejected, cryptoVars, protocolVars,
                          connectionVars, thr, fpc, wire, seals, tor, own, peers>>

ApiChangePassword ==
    \E old_password \in Passwords, new_password \in Passwords :
       \E r \in {ChangePassword(disk, dir_ok, old_password, new_password, LifeSeed,
                                  LifeSeed)} :
           /\ disk' = r.disk
           /\ life' = [life EXCEPT !.op = "change_password", !.password = new_password,
                                   !.old_password = old_password,
                                   !.res = r.res, !.unlinked = NotUnlinked]
           /\ UNCHANGED <<dir_ok, call, made, altered, rejected, cryptoVars, protocolVars,
                          connectionVars, thr, fpc, wire, seals, tor, own, peers>>

ApiLoadIdentity ==
    \E password \in Passwords :
       /\ life' = [life EXCEPT !.op = "load_identity", !.password = password,
                               !.old_password = <<>>,
                               !.res = LoadIdentity(disk, password),
                               !.unlinked = NotUnlinked]
       /\ UNCHANGED <<storageVars, cryptoVars, protocolVars, connectionVars, thr, fpc, wire, seals, tor, own, peers>>

ApiHasIdentity ==
    /\ life' = [life EXCEPT !.op = "has_identity", !.password = <<>>, !.old_password = <<>>,
                            !.res = Ok(HasIdentity(disk)), !.unlinked = NotUnlinked]
    /\ UNCHANGED <<storageVars, cryptoVars, protocolVars, connectionVars, thr, fpc, wire, seals, tor, own, peers>>

\* one contact is enough for contacts.json to exist when wipe_all runs
LifeContactAddresses == {CHOOSE address \in ContactAddresses : TRUE}

LifeContactNicknames == {CHOOSE nickname \in ContactNicknames : TRUE}

ApiAddContact ==
    \E address \in LifeContactAddresses, nickname \in LifeContactNicknames,
       fingerprint \in ContactFingerprints, now \in Times :
       \E r \in {AddContact(disk, dir_ok, address, nickname, fingerprint, now)} :
           /\ disk' = r.disk
           /\ life' = [life EXCEPT !.op = "add_contact", !.password = <<>>,
                                   !.old_password = <<>>, !.res = r.res,
                                   !.unlinked = NotUnlinked]
           /\ UNCHANGED <<dir_ok, call, made, altered, rejected, cryptoVars, protocolVars,
                          connectionVars, thr, fpc, wire, seals, tor, own, peers>>

\* whether the bytes a file held when it was removed were all zero
Unlinked(content) ==
    IF ~content.some THEN "none"
    ELSE IF \A i \in 1..Len(content.val) : content.val[i] = 0 THEN "zeros"
    ELSE "data"

ApiWipeAll ==
    \E r \in {WipeAll(disk)} :
        /\ disk' = r.disk
        /\ life' = [life EXCEPT
                       !.op = "wipe_all", !.password = <<>>, !.old_password = <<>>,
                       !.res = r.res,
                       !.unlinked = [f \in StorageFiles |-> Unlinked(r.unlinked[f])],
                       !.wiped = IF r.res.ok THEN HasIdentity(disk) \/ @ ELSE @,
                       !.first = IF r.res.ok THEN None ELSE @]
        /\ UNCHANGED <<dir_ok, call, made, altered, rejected, cryptoVars, protocolVars,
                       connectionVars, thr, fpc, wire, seals, tor, own, peers>>

(***************************************************************************)
(* crypto.rs: a Fingerprint is made and verified against a public key.     *)
(***************************************************************************)
InitFingerprint ==
    fpc = [stage |-> "idle", key |-> 0, fp |-> <<>>, again |-> None, pk |-> 0, res |-> FALSE,
           formatted |-> None]

\* Fingerprint::from_public_key on the public key of key pair a, as test_fingerprint
CallFromPublicKey ==
    /\ fpc.stage = "idle"
    /\ \E a \in Keys :
          fpc' = [fpc EXCEPT !.stage = "made", !.key = a,
                             !.fp = FingerprintFromPublicKey(DecodedIdentity(a).pk)]
    /\ UNCHANGED <<cryptoVars, protocolVars, storageVars, connectionVars, thr, life, wire, seals, tor, own, peers>>

\* the strings a user may type for the fingerprint fp: one character changed,
\* or the end left out
TypedFingerprints(fp) ==
    {[fp EXCEPT ![at] = IF @ = 65 THEN 66 ELSE 65] : at \in 1..Len(fp)}
       \cup {SubSeq(fp, 1, n) : n \in 0..(Len(fp) - 1)}

\* Fingerprint::new on a string that is not the fingerprint of a key pair
CallFingerprintNew ==
    /\ fpc.stage = "idle"
    /\ \E a \in Keys :
          \E inner \in TypedFingerprints(FingerprintFromPublicKey(DecodedIdentity(a).pk)) :
             fpc' = [fpc EXCEPT !.stage = "made", !.key = 0, !.fp = inner]
    /\ UNCHANGED <<cryptoVars, protocolVars, storageVars, connectionVars, thr, life, wire, seals, tor, own, peers>>

\* from_public_key called once more on the same public key
CallFromPublicKeyAgain ==
    /\ fpc.stage = "made"
    /\ fpc.key # 0
    /\ ~fpc.again.some
    /\ fpc' = [fpc EXCEPT !.again = Some(FingerprintFromPublicKey(DecodedIdentity(fpc.key).pk))]
    /\ UNCHANGED <<cryptoVars, protocolVars, storageVars, connectionVars, thr, life, wire, seals, tor, own, peers>>

\* fp.formatted()
CallFormatted ==
    /\ fpc.stage = "made"
    /\ ~fpc.formatted.some
    /\ fpc' = [fpc EXCEPT !.formatted = Some(FingerprintFormatted(fpc.fp))]
    /\ UNCHANGED <<cryptoVars, protocolVars, storageVars, connectionVars, thr, life, wire, seals, tor, own, peers>>

\* fp.verify(pk) on the public key of key pair b
CallVerify ==
    /\ fpc.stage = "made"
    /\ \E b \in Keys :
          fpc' = [fpc EXCEPT !.stage = "verified", !.pk = b,
                             !.res = FingerprintVerify(fpc.fp, DecodedIdentity(b).pk)]
    /\ UNCHANGED <<cryptoVars, protocolVars, storageVars, connectionVars, thr, life, wire, seals, tor, own, peers>>

(***************************************************************************)
(* serde_json, for Message, HandshakeMessage and ProtocolFrame.  Strings   *)
(* are escaped and unescaped; of the control characters, the strings of    *)
(* the model hold only the five with a short escape.                       *)
(***************************************************************************)
\* the field names of the structs, as serde writes them
Ident ==
    [id |-> <<105, 100>>,
     msg_type |-> <<109, 115, 103, 95, 116, 121, 112, 101>>,
     sender |-> <<115, 101, 110, 100, 101, 114>>,
     timestamp |-> <<116, 105, 109, 101, 115, 116, 97, 109, 112>>,
     content |-> <<99, 111, 110, 116, 101, 110, 116>>,
     sequence |-> <<115, 101, 113, 117, 101, 110, 99, 101>>,
     file_metadata |-> <<102, 105, 108, 101, 95, 109, 101, 116, 97, 100, 97, 116, 97>>,
     name |-> <<110, 97, 109, 101>>,
     size |-> <<115, 105, 122, 101>>,
     mime_type |-> <<109, 105, 109, 101, 95, 116, 121, 112, 101>>,
     version |-> <<118, 101, 114, 115, 105, 111, 110>>,
     public_key |-> <<112, 117, 98, 108, 105, 99, 95, 107, 101, 121>>,
     nonce |-> <<110, 111, 110, 99, 101>>,
     frame_type |-> <<102, 114, 97, 109, 101, 95, 116, 121, 112, 101>>,
     payload |-> <<112, 97, 121, 108, 111, 97, 100>>,
     checksum |-> <<99, 104, 101, 99, 107, 115, 117, 109>>]

\* the variant names of MessageType and FrameType, as serde writes them
Variant ==
    [Handshake |-> <<72, 97, 110, 100, 115, 104, 97, 107, 101>>,
     Text |-> <<84, 101, 120, 116>>,
     File |-> <<70, 105, 108, 101>>,
     Ack |-> <<65, 99, 107>>,
     KeepAlive |-> <<75, 101, 101, 112, 65, 108, 105, 118, 101>>,
     Disconnect |-> <<68, 105, 115, 99, 111, 110, 110, 101, 99, 116>>,
     Single |-> <<83, 105, 110, 103, 108, 101>>,
     FirstFragment |-> <<70, 105, 114, 115, 116, 70, 114, 97, 103, 109, 101, 110, 116>>,
     MiddleFragment |-> <<77, 105, 100, 100, 108, 101, 70, 114, 97, 103, 109, 101, 110, 116>>,
     LastFragment |-> <<76, 97, 115, 116, 70, 114, 97, 103, 109, 101, 110, 116>>]

MessageTypes == {"Handshake", "Text", "File", "Ack", "KeepAlive", "Disconnect"}

FrameTypes == {"Single", "FirstFragment", "MiddleFragment", "LastFragment"}

\* the backslash written as it is
EscapeCharNoBackslash(c) ==
    CASE c = 34 -> <<92, 34>>
      [] c = 8 -> <<92, 98>>
      [] c = 12 -> <<92, 102>>
      [] c = 10 -> <<92, 110>>
      [] c = 13 -> <<92, 114>>
      [] c = 9 -> <<92, 116>>
      [] OTHER -> <<c>>

\* what serde_json writes for the character c of a string
EscapeChar(c) ==
    CASE c = 34 -> <<92, 34>>
      [] c = 92 -> <<92, 92>>
      [] c = 8 -> <<92, 98>>
      [] c = 12 -> <<92, 102>>
      [] c = 10 -> <<92, 110>>
      [] c = 13 -> <<92, 114>>
      [] c = 9 -> <<92, 116>>
      [] OTHER -> <<c>>

\* the character the escape \c stands for, -1 when there is no such escape
UnescapeChar(c) ==
    CASE c = 34 -> 34
      [] c = 92 -> 92
      [] c = 47 -> 47
      [] c = 98 -> 8
      [] c = 102 -> 12
      [] c = 110 -> 10
      [] c = 114 -> 13
      [] c = 116 -> 9
      [] OTHER -> -1

RECURSIVE JsonEscape(_, _, _)
\* the characters lo..hi of str, escaped
JsonEscape(str, lo, hi) ==
    IF lo > hi THEN <<>>
    ELSE IF lo = hi THEN EscapeChar(str[lo])
    ELSE JsonEscape(str, lo, (lo + hi) \div 2) \o JsonEscape(str, ((lo + hi) \div 2) + 1, hi)

JsonQuote(str) == <<34>> \o JsonEscape(str, 1, Len(str)) \o <<34>>

\* "name":value
JsonPair(name, value) == <<34>> \o name \o <<34, 58>> \o value

\* Serialize for FileMetadata
FileMetadataJson(m) ==
    <<123>> \o JsonPair(Ident.name, JsonQuote(m.name)) \o <<44>>
      \o JsonPair(Ident.size, ToDecimal(m.size)) \o <<44>>
      \o JsonPair(Ident.mime_type, JsonQuote(m.mime_type)) \o <<125>>

\* ChatProtocol::serialize_message: serde_json::to_string of a Message does not fail
SerializeMessage(msg) ==
    Ok(<<123>> \o JsonPair(Ident.id, JsonQuote(msg.id)) \o <<44>>
         \o JsonPair(Ident.msg_type, JsonQuote(Variant[msg.msg_type])) \o <<44>>
         \o JsonPair(Ident.sender, JsonQuote(msg.sender)) \o <<44>>
         \o JsonPair(Ident.timestamp, ToDecimal(msg.timestamp)) \o <<44>>
         \o JsonPair(Ident.content, JsonQuote(msg.content)) \o <<44>>
         \o JsonPair(Ident.sequence, ToDecimal(msg.sequence)) \o <<44>>
         \o JsonPair(Ident.file_metadata,
                     IF msg.file_metadata.some THEN FileMetadataJson(msg.file_metadata.val)
                     ELSE <<110, 117, 108, 108>>)
         \o <<125>>)

\* ChatProtocol::serialize_handshake
SerializeHandshake(handshake) ==
    Ok(<<123>> \o JsonPair(Ident.version, ToDecimal(handshake.version)) \o <<44>>
         \o JsonPair(Ident.public_key, JsonQuote(handshake.public_key)) \o <<44>>
         \o JsonPair(Ident.nonce, JsonQuote(handshake.nonce)) \o <<125>>)

\* ChatProtocol::serialize_frame
SerializeFrame(frame) ==
    Ok(<<123>> \o JsonPair(Ident.frame_type, JsonQuote(Variant[frame.frame_type])) \o <<44>>
         \o JsonPair(Ident.payload, JsonQuote(frame.payload)) \o <<44>>
         \o JsonPair(Ident.checksum, JsonQuote(frame.checksum)) \o <<125>>)

\* the reader after the character c, having been in state st: outside a
\* string, inside one, or after a backslash inside one
JsonStep(st, c) ==
    IF st = "out" THEN (IF c = 34 THEN "in" ELSE "out")
    ELSE IF st = "esc" THEN "in"
    ELSE IF c = 92 THEN "esc"
    ELSE IF c = 34 THEN "out"
    ELSE "in"

RECURSIVE JsonStates(_, _, _, _)
\* the states of the reader after each of the characters lo..hi of s, which it
\* enters in state st
JsonStates(s, lo, hi, st) ==
    IF lo > hi THEN <<>>
    ELSE IF lo = hi THEN <<JsonStep(st, s[lo])>>
    ELSE LET left == JsonStates(s, lo, (lo + hi) \div 2, st)
         IN  left \o JsonStates(s, ((lo + hi) \div 2) + 1, hi, left[Len(left)])

\* the string between the quotes at p and q of s, unescaped: before[i] is the
\* state in which the reader meets s[i]
JsonUnquote(s, before, p, q) ==
    LET kept(i) == ~(before[i] = "in" /\ s[i] = 92)
        at == SelectSeq(Tuple([k \in 1..(q - p - 1) |-> p + k]), kept)
        str == Tuple([k \in 1..Len(at) |->
                        IF before[at[k]] = "esc" THEN UnescapeChar(s[at[k]])
                        ELSE IF s[at[k]] < 32 THEN -1
                        ELSE s[at[k]]])
    IN  IF \E k \in 1..Len(str) : str[k] = -1 THEN Err("string") ELSE Ok(str)

RECURSIVE JsonMembers(_, _, _, _, _, _, _)
\* the members of the object whose braces are the tokens o and c: tok holds
\* the places in s of the characters outside strings and of the quotes, lev
\* the number of objects open at each of them
JsonMembers(s, before, tok, lev, o, c, level) ==
    LET n == Len(tok)
        sk(k) == s[tok[k]]
        isComma(k) == k > o /\ k < c /\ sk(k) = 44 /\ lev[k] = level
        commas == SelectSeq(Tuple([k \in 1..n |-> k]), isComma)
        count == Len(commas) + 1
        from(m) == IF m = 1 THEN o + 1 ELSE commas[m - 1] + 1
        to(m) == IF m = count THEN c - 1 ELSE commas[m] - 1
        adjacent(a, b) == tok[b] - tok[a] = b - a
        text(a, b) == Tuple([k \in 1..(b - a + 1) |-> sk(a + k - 1)])
        value(a, b) ==
            IF sk(a) = 34
            THEN IF b = a + 1 /\ sk(b) = 34
                 THEN LET str == JsonUnquote(s, before, tok[a], tok[b])
                      IN  IF str.ok THEN Ok([kind |-> "string", val |-> str.val]) ELSE str
                 ELSE Err("value")
            ELSE IF sk(a) = 123
            THEN IF b > a /\ sk(b) = 125
                      /\ \A k \in (a + 1)..(b - 1) : ~(sk(k) = 125 /\ lev[k] = level + 1)
                 THEN LET inner == JsonMembers(s, before, tok, lev, a, b, level + 1)
                      IN  IF inner.ok THEN Ok([kind |-> "object", val |-> inner.val])
                          ELSE inner
                 ELSE Err("value")
            ELSE IF ~adjacent(a, b) THEN Err("value")
            ELSE IF text(a, b) = <<110, 117, 108, 108>> THEN Ok([kind |-> "null", val |-> 0])
            ELSE LET number == ParseDecimal(text(a, b))
                 IN  IF number.ok THEN Ok([kind |-> "number", val |-> number.val])
                     ELSE Err("value")
        member(m) ==
            LET a == from(m)
                b == to(m)
            IN  IF b < a + 3 \/ sk(a) # 34 \/ sk(a + 1) # 34 \/ sk(a + 2) # 58
                THEN Err("member")
                ELSE LET key == JsonUnquote(s, before, tok[a], tok[a + 1])
                         v == value(a + 3, b)
                     IN  IF ~key.ok THEN key
                         ELSE IF ~v.ok THEN v
                         ELSE Ok([key |-> key.val, kind |-> v.val.kind, val |-> v.val.val])
        members == Tuple([m \in 1..count |-> member(m)])
    IN  IF c = o + 1 THEN Ok(<<>>)
        ELSE IF \E m \in 1..count : ~members[m].ok THEN Err("object")
        ELSE Ok(Tuple([m \in 1..count |-> members[m].val]))

\* the members of the JSON object s, or Err: the reader of the model knows
\* objects, strings, integers and null
JsonRead(s) ==
    LET before == <<"out">> \o JsonStates(s, 1, Len(s), "out")
        isToken(i) ==
            \/ before[i] = "out" /\ ~IsJsonWhitespace(s[i])
            \/ before[i] = "in" /\ s[i] = 34
        tok == SelectSeq(Tuple([i \in 1..Len(s) |-> i]), isToken)
        n == Len(tok)
        opens(k) == Cardinality({j \in 1..k : s[tok[j]] = 123})
        closes(k) == Cardinality({j \in 1..(k - 1) : s[tok[j]] = 125})
        lev == Tuple([k \in 1..n |-> opens(k) - closes(k)])
    IN  IF before[Len(s) + 1] # "out" THEN Err("string")
        ELSE IF n < 2 \/ s[tok[1]] # 123 \/ s[tok[n]] # 125 THEN Err("object")
        ELSE IF \E k \in 1..n : lev[k] < 1 \/ (k < n /\ s[tok[k]] = 125 /\ lev[k] = 1)
        THEN Err("object")
        ELSE JsonMembers(s, before, tok, lev, 1, n, 1)

\* the members named `name`: how many there are, and the first of them
JsonFind(members, name) ==
    LET named(m) == m.key = name
        found == SelectSeq(members, named)
    IN  [count |-> Len(found),
         first |-> IF Len(found) = 0 THEN [key |-> name, kind |-> "missing", val |-> 0]
                   ELSE found[1]]

\* a field of type String
StringField(found) ==
    IF found.count = 1 /\ found.first.kind = "string" THEN Ok(found.first.val) ELSE Err("field")

\* a field of an integer type with the values lo..hi of the model
IntegerField(found, lo, hi) ==
    IF found.count = 1 /\ found.first.kind = "number" /\ found.first.val >= lo
         /\ found.first.val <= hi
    THEN Ok(found.first.val)
    ELSE Err("field")

\* a field of an enum with unit variants
VariantField(found, variants) ==
    IF found.count = 1 /\ found.first.kind = "string"
         /\ \E v \in variants : Variant[v] = found.first.val
    THEN Ok(CHOOSE v \in variants : Variant[v] = found.first.val)
    ELSE Err("field")

\* Deserialize for FileMetadata
FileMetadataFrom(members) ==
    LET name == StringField(JsonFind(members, Ident.name))
        size == IntegerField(JsonFind(members, Ident.size), 0, 1999999999)
        mime_type == StringField(JsonFind(members, Ident.mime_type))
    IN  IF name.ok /\ size.ok /\ mime_type.ok
        THEN Ok([name |-> name.val, size |-> size.val, mime_type |-> mime_type.val])
        ELSE Err("field")

\* a field of type Option<FileMetadata>: None when it is null or missing
OptionFileMetadataField(found) ==
    IF found.count = 0 \/ (found.count = 1 /\ found.first.kind = "null") THEN Ok(None)
    ELSE IF found.count = 1 /\ found.first.kind = "object"
    THEN LET metadata == FileMetadataFrom(found.first.val)
         IN  IF metadata.ok THEN Ok(Some(metadata.val)) ELSE metadata
    ELSE Err("field")

\* Deserialize for Message
MessageFrom(parsed) ==
    IF ~parsed.ok THEN Err("InvalidFormat")
    ELSE LET id == StringField(JsonFind(parsed.val, Ident.id))
             msg_type == VariantField(JsonFind(parsed.val, Ident.msg_type), MessageTypes)
             sender == StringField(JsonFind(parsed.val, Ident.sender))
             timestamp == IntegerField(JsonFind(parsed.val, Ident.timestamp),
                                       -1999999999, 1999999999)
             content == StringField(JsonFind(parsed.val, Ident.content))
             sequence == IntegerField(JsonFind(parsed.val, Ident.sequence), 0, 1999999999)
             file_metadata ==
                 OptionFileMetadataField(JsonFind(parsed.val, Ident.file_metadata))
         IN  IF id.ok /\ msg_type.ok /\ sender.ok /\ timestamp.ok /\ content.ok
                  /\ sequence.ok /\ file_metadata.ok
             THEN Ok([id |-> id.val, msg_type |-> msg_type.val, sender |-> sender.val,
                      timestamp |-> timestamp.val, content |-> content.val,
                      sequence |-> sequence.val, file_metadata |-> file_metadata.val])
             ELSE Err("InvalidFormat")

\* ChatProtocol::deserialize_message
DeserializeMessage(data) == MessageFrom(JsonRead(data))

\* Deserialize for HandshakeMessage: version is a u16
HandshakeMessageFrom(parsed) ==
    IF ~parsed.ok THEN Err("InvalidFormat")
    ELSE LET version == IntegerField(JsonFind(parsed.val, Ident.version), 0, 65535)
             public_key == StringField(JsonFind(parsed.val, Ident.public_key))
             nonce == StringField(JsonFind(parsed.val, Ident.nonce))
         IN  IF version.ok /\ public_key.ok /\ nonce.ok
             THEN Ok([version |-> version.val, public_key |-> public_key.val,
                      nonce |-> nonce.val])
             ELSE Err("InvalidFormat")

\* ChatProtocol::deserialize_handshake
DeserializeHandshake(data) == HandshakeMessageFrom(JsonRead(data))

\* Deserialize for ProtocolFrame
ProtocolFrameFrom(parsed) ==
    IF ~parsed.ok THEN Err("InvalidFormat")
    ELSE LET frame_type == VariantField(JsonFind(parsed.val, Ident.frame_type), FrameTypes)
             payload == StringField(JsonFind(parsed.val, Ident.payload))
             checksum == StringField(JsonFind(parsed.val, Ident.checksum))
         IN  IF frame_type.ok /\ payload.ok /\ checksum.ok
             THEN Ok([frame_type |-> frame_type.val, payload |-> payload.val,
                      checksum |-> checksum.val])
             ELSE Err("InvalidFormat")

\* ChatProtocol::deserialize_frame
DeserializeFrame(data) == ProtocolFrameFrom(JsonRead(data))

(***************************************************************************)
(* protocol.rs: handshakes and frames are created; values are serialized   *)
(* and read back.                                                          *)
(***************************************************************************)
\* ChatProtocol::create_handshake
CreateHandshake(self, public_key, nonce) ==
    [version |-> self.version, public_key |-> public_key, nonce |-> nonce]

\* create_frame with the checksum of the empty payload
CreateFrameEmptyChecksum(self, payload) ==
    [frame_type |-> "Single", payload |-> payload, checksum |-> Base64Encode(Sha256(<<>>))]

\* ChatProtocol::create_frame
CreateFrame(self, payload) ==
    [frame_type |-> "Single", payload |-> payload, checksum |-> Base64Encode(Sha256(payload))]

\* the strings of the values: "", "Hello", a quote, a backslash, a backslash
\* before a quote, a line feed, and JSON syntax
WireStrings ==
    {<<>>, <<72, 101, 108, 108, 111>>, <<34>>, <<92>>, <<92, 34>>, <<10>>,
     <<123, 34, 97, 34, 58, 49, 44, 125>>, <<110, 117, 108, 108>>}

\* the messages a ChatProtocol with counter `sequence` hands to serialize_message:
\* the fields of Message are public
WireMessages(sequence) ==
    [id : {GenerateMessageId(seed) : seed \in {CHOOSE seed \in Seeds : TRUE}},
     msg_type : MessageTypes, sender : Senders, timestamp : Times \cup {-1},
     content : WireStrings, sequence : {sequence},
     file_metadata : {None} \cup {Some(m) : m \in FileMetadatas}]

\* the payloads of frames: strings, and a serialized message as test_frame_serialization
\* would carry
Payloads ==
    WireStrings
      \cup {SerializeMessage(CreateTextMessage(ChatProtocolNew, sender, content,
                                               CHOOSE seed \in Seeds : TRUE, now).msg).val :
              sender \in Senders, content \in {<<92, 34>>}, now \in Times}

\* the frames handed to serialize_frame: the fields of ProtocolFrame are public
WireFrames ==
    [frame_type : FrameTypes, payload : Payloads,
     checksum : {Base64Encode(Sha256(<<>>)), <<34, 92>>}]

NoWire ==
    [stage |-> "idle", op |-> "none", kind |-> "none", val |-> <<>>, payload |-> <<>>,
     text |-> Err("none"), back |-> Err("none")]

InitWire == wire = NoWire

WireCreateFrame ==
    /\ wire.stage = "idle"
    /\ \E payload \in Payloads :
          wire' = [NoWire EXCEPT !.stage = "made", !.op = "create_frame", !.kind = "frame",
                                 !.val = CreateFrame(protocol, payload), !.payload = payload]
    /\ UNCHANGED <<cryptoVars, protocolVars, storageVars, connectionVars, thr, life, fpc, seals, tor, own, peers>>

WireFrame ==
    /\ wire.stage = "idle"
    /\ \E frame \in WireFrames :
          wire' = [NoWire EXCEPT !.stage = "made", !.op = "frame", !.kind = "frame",
                                 !.val = frame]
    /\ UNCHANGED <<cryptoVars, protocolVars, storageVars, connectionVars, thr, life, fpc, seals, tor, own, peers>>

WireCreateHandshake ==
    /\ wire.stage = "idle"
    /\ \E public_key \in WireStrings \cup {GenerateIdentity(k).public_key : k \in Keys},
          nonce \in {<<>>, <<92, 34>>} :
          wire' = [NoWire EXCEPT !.stage = "made", !.op = "create_handshake",
                                 !.kind = "handshake",
                                 !.val = CreateHandshake(protocol, public_key, nonce)]
    /\ UNCHANGED <<cryptoVars, protocolVars, storageVars, connectionVars, thr, life, fpc, seals, tor, own, peers>>

WireMessage ==
    /\ wire.stage = "idle"
    /\ \E msg \in WireMessages(protocol.sequence) :
          wire' = [NoWire EXCEPT !.stage = "made", !.op = "message", !.kind = "message",
                                 !.val = msg]
    /\ UNCHANGED <<cryptoVars, protocolVars, storageVars, connectionVars, thr, life, fpc, seals, tor, own, peers>>

\* serialize_frame, serialize_message or serialize_handshake on the value
WireSerialize ==
    /\ wire.stage = "made"
    /\ wire' = [wire EXCEPT !.stage = "serialized",
                            !.text = CASE wire.kind = "frame" -> SerializeFrame(wire.val)
                                       [] wire.kind = "message" -> SerializeMessage(wire.val)
                                       [] wire.kind = "handshake" ->
                                            SerializeHandshake(wire.val)]
    /\ UNCHANGED <<cryptoVars, protocolVars, storageVars, connectionVars, thr, life, fpc, seals, tor, own, peers>>

\* deserialize_frame, deserialize_message or deserialize_handshake on the text
WireDeserialize ==
    /\ wire.stage = "serialized"
    /\ wire.text.ok
    /\ wire' = [wire EXCEPT !.stage = "deserialized",
                            !.back = CASE wire.kind = "frame" -> DeserializeFrame(wire.text.val)
                                       [] wire.kind = "message" ->
                                            DeserializeMessage(wire.text.val)
                                       [] wire.kind = "handshake" ->
                                            DeserializeHandshake(wire.text.val)]
    /\ UNCHANGED <<cryptoVars, protocolVars, storageVars, connectionVars, thr, life, fpc, seals, tor, own, peers>>

\* next_sequence between the calls: the counter the values are made under moves
WireNextSequence ==
    /\ CanCount
    /\ protocol' = NextSequence(protocol).self
    /\ UNCHANGED <<created, direct, wire, cryptoVars, storageVars, connectionVars, thr, life,
                   fpc, seals, tor, own, peers>>

(***************************************************************************)
(* crypto.rs: two seal operations of one process.  The random generator    *)
(* is taken as ideal: it does not draw a value it has drawn before.        *)
(***************************************************************************)
Draws == 1..NumDraws

\* the messages and data sealed: "", "A", "B"
SealMessages == {p \in Plaintexts : Len(p) <= 1}

InitSeals == seals = [first |-> None, second |-> None, drawn |-> {}]

\* the seal of Crypto::encrypt on the draw `seed`: the key and the nonce it used
EncryptSeal(message, key, seed) ==
    [op |-> "encrypt", key |-> key, salt |-> <<>>,
     nonce |-> Base64Decode(Encrypt(message, key, seed).nonce).val]

\* the seal of Crypto::encrypt_with_password: the derived key, the salt and
\* the nonce of the blob
EncryptWithPasswordSeal(data, password, saltSeed, nonceSeed) ==
    [op |-> "encrypt_with_password",
     key |-> EncryptWithPasswordKeyLeft(data, password, saltSeed, nonceSeed).val,
     salt |-> Slice(EncryptWithPassword(data, password, saltSeed, nonceSeed).val, 0, 16),
     nonce |-> Slice(EncryptWithPassword(data, password, saltSeed, nonceSeed).val, 16, 40)]

\* the seal is the first of the two, or the second
Sealed(seal, draws) ==
    /\ ~seals.second.some
    /\ seals' = [first |-> IF seals.first.some THEN seals.first ELSE Some(seal),
                 second |-> IF seals.first.some THEN Some(seal) ELSE None,
                 drawn |-> seals.drawn \cup draws]

\* encrypt under the tx key of a session
SealEncrypt ==
    /\ \E a \in Keys, b \in Keys, message \in SealMessages, seed \in Draws \ seals.drawn :
          Sealed(EncryptSeal(message, SessionOf("client", a, b).val.tx, seed), {seed})
    /\ UNCHANGED <<cryptoVars, protocolVars, storageVars, connectionVars, thr, life, fpc, wire, tor, own, peers>>

SealEncryptWithPassword ==
    /\ \E data \in SealMessages, password \in Passwords, saltSeed \in Draws \ seals.drawn :
          \E nonceSeed \in Draws \ (seals.drawn \cup {saltSeed}) :
             Sealed(EncryptWithPasswordSeal(data, password, saltSeed, nonceSeed),
                    {saltSeed, nonceSeed})
    /\ UNCHANGED <<cryptoVars, protocolVars, storageVars, connectionVars, thr, life, fpc, wire, tor, own, peers>>

(***************************************************************************)
(* tor_manager.rs: TorManager                                              *)
(***************************************************************************)
\* ".onion"
ONION == <<46, 111, 110, 105, 111, 110>>

V3_LENGTH == 56

RECURSIVE TrimEndMatches(_, _)
\* str::trim_end_matches(pat): the suffix pat removed as often as it is there
TrimEndMatches(s, pat) ==
    IF Len(s) >= Len(pat) /\ SubSeq(s, Len(s) - Len(pat) + 1, Len(s)) = pat
    THEN TrimEndMatches(SubSeq(s, 1, Len(s) - Len(pat)), pat)
    ELSE s

\* c.is_ascii_lowercase() || ('2'..='7').contains(&c)
IsOnionChar(c) == (c >= 97 /\ c <= 122) \/ (c >= 50 /\ c <= 55)

\* the validation passing every address of 56 characters
ValidateOnionAddressLengthOnly(address) ==
    IF Len(TrimEndMatches(address, ONION)) # V3_LENGTH THEN Err("InvalidOnionAddress")
    ELSE Ok(<<>>)

\* TorManager::validate_onion_address
ValidateOnionAddress(address) ==
    LET addr == TrimEndMatches(address, ONION)
    IN  IF Len(addr) # V3_LENGTH THEN Err("InvalidOnionAddress")
        ELSE IF \E i \in 1..Len(addr) : ~IsOnionChar(addr[i]) THEN Err("InvalidOnionAddress")
        ELSE Ok(<<>>)

\* the characters tried in an address: a, z, 2, 7, and 1, 8, A, '.', '-' , '{'
OnionChars == {97, 122, 50, 55, 49, 56, 65, 46, 45, 123}

\* addresses without suffix: 55, 56 or 57 times 'a' with the first or the last
\* character replaced, and the addresses of the tests "abc" and
\* "abcdef1234567890" four times over
OnionNames ==
    {[Repeat(97, n) EXCEPT ![at] = c] : n \in {55, 56, 57}, at \in {1, 55}, c \in OnionChars}
      \cup {<<97, 98, 99>>}
      \cup {Tuple([i \in 1..64 |->
                     <<97, 98, 99, 100, 101, 102, 49, 50, 51, 52, 53, 54, 55, 56, 57, 48>>[
                        ((i - 1) % 16) + 1]])}

RECURSIVE WithSuffixes(_, _)
\* the name followed by n suffixes ".onion"
WithSuffixes(name, n) == IF n = 0 THEN name ELSE WithSuffixes(name, n - 1) \o ONION

OnionAddresses == {WithSuffixes(name, n) : name \in OnionNames, n \in 0..MaxSuffixes}

\* the addresses of the contacts connected to: well-formed, of 55 characters,
\* with an upper-case letter, and "abc", each with and without suffixes
ContactOnionAddresses ==
    {WithSuffixes(name, n) :
       name \in {Repeat(97, 56), Repeat(97, 55), [Repeat(97, 56) EXCEPT ![1] = 65],
                 <<97, 98, 99>>},
       n \in 0..MaxSuffixes}

Status(tag, pct, msg) == [tag |-> tag, pct |-> pct, msg |-> msg]

Ready == Status("Ready", 0, "")

\* the values of TorStatus in the model
TorStatuses ==
    {Status("NotStarted", 0, ""), Status("Bootstrapping", 50, ""), Ready,
     Status("Error", 0, "failed")}

\* TorManager::new
TorManagerNew ==
    [status |-> Status("NotStarted", 0, ""), onion_address |-> None, socks_addr |-> TRUE,
     tor_client |-> FALSE]

\* connect_to_onion attempting the connection before it looks at the address
ConnectToOnionUnvalidated(self, address, connects) ==
    IF self.status # Ready THEN [res |-> Err("NotInitialized"), attempted |-> FALSE]
    ELSE IF ~self.socks_addr THEN [res |-> Err("NotInitialized"), attempted |-> FALSE]
    ELSE [res |-> IF connects THEN ValidateOnionAddress(address) ELSE Err("SocksError"),
          attempted |-> TRUE]

\* TorManager::connect_to_onion, the proxy connecting or not: the result, and
\* whether Socks5Stream::connect was called
ConnectToOnion(self, address, connects) ==
    IF self.status # Ready THEN [res |-> Err("NotInitialized"), attempted |-> FALSE]
    ELSE IF ~ValidateOnionAddress(address).ok
    THEN [res |-> ValidateOnionAddress(address), attempted |-> FALSE]
    ELSE IF ~self.socks_addr THEN [res |-> Err("NotInitialized"), attempted |-> FALSE]
    ELSE [res |-> IF connects THEN Ok(<<>>) ELSE Err("SocksError"), attempted |-> TRUE]

\* TorManager::is_reachable
IsReachable(self, address, connects) ==
    IF self.status # Ready \/ ~ValidateOnionAddress(address).ok
    THEN [res |-> FALSE, attempted |-> FALSE]
    ELSE IF ~self.socks_addr THEN [res |-> FALSE, attempted |-> FALSE]
    ELSE [res |-> connects, attempted |-> TRUE]

\* TorManager::bootstrap, create_bootstrapped succeeding or not
Bootstrap(self, succeeds) ==
    IF ~succeeds THEN [self |-> self, res |-> Err("BootstrapFailed")]
    ELSE [self |-> [self EXCEPT !.tor_client = TRUE, !.status = Ready], res |-> Ok(<<>>)]

InitTor ==
    tor = [self |-> TorManagerNew, op |-> "new", address |-> <<>>, res |-> Ok(<<>>),
           reachable |-> FALSE, attempted |-> FALSE]

\* validate_onion_address is an associated function: it is applied to its
\* inputs next to a new TorManager
CallValidateOnionAddress ==
    /\ tor.op = "new"
    /\ \E address \in OnionAddresses :
          tor' = [tor EXCEPT !.op = "validate_onion_address", !.address = address,
                             !.res = ValidateOnionAddress(address), !.reachable = FALSE, !.attempted = FALSE]
    /\ UNCHANGED <<cryptoVars, protocolVars, storageVars, connectionVars, thr, life, fpc, wire,
                   seals, own, peers>>

CallBootstrap ==
    /\ tor.op # "validate_onion_address"
    /\ \E succeeds \in BOOLEAN :
          tor' = [tor EXCEPT !.op = "bootstrap", !.address = <<>>,
                             !.self = Bootstrap(tor.self, succeeds).self,
                             !.res = Bootstrap(tor.self, succeeds).res, !.reachable = FALSE, !.attempted = FALSE]
    /\ UNCHANGED <<cryptoVars, protocolVars, storageVars, connectionVars, thr, life, fpc, wire,
                   seals, own, peers>>

\* TorManager::set_status
CallSetStatus ==
    /\ tor.op # "validate_onion_address"
    /\ \E status \in TorStatuses :
          tor' = [tor EXCEPT !.op = "set_status", !.address = <<>>, !.self.status = status,
                             !.res = Ok(<<>>), !.reachable = FALSE, !.attempted = FALSE]
    /\ UNCHANGED <<cryptoVars, protocolVars, storageVars, connectionVars, thr, life, fpc, wire,
                   seals, own, peers>>

CallConnectToOnion ==
    /\ tor.op # "validate_onion_address"
    /\ \E address \in ContactOnionAddresses, connects \in BOOLEAN :
          tor' = [tor EXCEPT !.op = "connect_to_onion", !.address = address,
                             !.res = ConnectToOnion(tor.self, address, connects).res,
                             !.reachable = FALSE,
                             !.attempted =
                                 ConnectToOnion(tor.self, address, connects).attempted]
    /\ UNCHANGED <<cryptoVars, protocolVars, storageVars, connectionVars, thr, life, fpc, wire,
                   seals, own, peers>>

CallIsReachable ==
    /\ tor.op # "validate_onion_address"
    /\ \E address \in ContactOnionAddresses, connects \in BOOLEAN :
          tor' = [tor EXCEPT !.op = "is_reachable", !.address = address,
                             !.res = Ok(<<>>),
                             !.reachable = IsReachable(tor.self, address, connects).res,
                             !.attempted = IsReachable(tor.self, address, connects).attempted]
    /\ UNCHANGED <<cryptoVars, protocolVars, storageVars, connectionVars, thr, life, fpc, wire,
                   seals, own, peers>>

(***************************************************************************)
(* protocol.rs: P2PConnection                                              *)
(***************************************************************************)
\* ConnectionState
ConnectionStates == {"Disconnected", "Handshake", "Connected", "Closing"}

\* the session keys a key exchange between two identities yields
SessionKeyValues ==
    UNION {{SessionOf(role, a, b).val.rx, SessionOf(role, a, b).val.tx} :
             role \in {"client", "server"}, a \in Keys, b \in Keys}

\* P2PConnection::new at time `now`
P2PConnectionNew(address, now) ==
    [remote_address |-> address, state |-> "Disconnected", session_key |-> None,
     pending_acks |-> <<>>, last_activity |-> now]

\* set_connected that sets the state and leaves the key as it was
SetConnectedStateOnly(self, session_key) == [self EXCEPT !.state = "Connected"]

\* P2PConnection::set_connected
SetConnected(self, session_key) ==
    [self EXCEPT !.state = "Connected", !.session_key = Some(session_key)]

\* P2PConnection::is_connected
IsConnected(self) == self.state = "Connected"

InitConnection ==
    /\ \E address \in Senders, now \in Times : conn = P2PConnectionNew(address, now)
    /\ conn_last = [op |-> "new", from |-> "Disconnected"]

CallSetConnected ==
    /\ \E session_key \in SessionKeyValues : conn' = SetConnected(conn, session_key)
    /\ conn_last' = [op |-> "set_connected", from |-> conn.state]
    /\ UNCHANGED <<cryptoVars, protocolVars, storageVars, thr, life, fpc, wire, seals, tor, own, peers>>

\* the states no method of P2PConnection sets: the owner writes them to the pub field
OwnerStates == ConnectionStates \ {"Connected"}

\* the owner of the connection writes its pub field `state`; it takes Closing
\* for the last state of a connection
AssignState ==
    /\ conn.state # "Closing"
    /\ \E state \in OwnerStates : conn' = [conn EXCEPT !.state = state]
    /\ conn_last' = [op |-> "state", from |-> conn.state]
    /\ UNCHANGED <<cryptoVars, protocolVars, storageVars, thr, life, fpc, wire, seals, tor, own, peers>>

(***************************************************************************)
(* P2PConnections that are made by P2PConnection::new and changed by       *)
(* set_connected only: nothing writes their pub fields.                    *)
(***************************************************************************)
InitPeers == peers = [made |-> [a \in ContactAddresses |-> None], op |-> "none", address |-> <<>>]

PeerNew ==
    \E address \in ContactAddresses, now \in Times :
       /\ peers' = [made |-> [peers.made EXCEPT ![address] = Some(P2PConnectionNew(address, now))],
                    op |-> "new", address |-> address]
       /\ UNCHANGED <<cryptoVars, protocolVars, storageVars, connectionVars, thr, life, fpc,
                      wire, seals, tor, own>>

PeerSetConnected ==
    \E address \in ContactAddresses, session_key \in SessionKeyValues :
       /\ peers.made[address].some
       /\ peers' = [made |-> [peers.made EXCEPT
                                 ![address] = Some(SetConnected(peers.made[address].val,
                                                                session_key))],
                    op |-> "set_connected", address |-> address]
       /\ UNCHANGED <<cryptoVars, protocolVars, storageVars, connectionVars, thr, life, fpc,
                      wire, seals, tor, own>>

Init ==
    /\ InitCrypto
    /\ InitProtocol
    /\ InitStorage
    /\ InitConnection
    /\ InitContacts
    /\ InitLife
    /\ InitFingerprint
    /\ InitWire
    /\ InitSeals
    /\ InitTor
    /\ InitOwner
    /\ InitPeers

NextCrypto ==
    \/ KeyExchange
    \/ SymEncrypt
    \/ SymTamper
    \/ SymDecrypt
    \/ PwdEncrypt
    \/ PwdTamper
    \/ PwdDecrypt
    \/ PadApply
    \/ PadRemove

NextProtocol ==
    \/ CallNextSequence
    \/ CallCreateTextMessage
    \/ CallCreateFileMessage

NextStorage ==
    \/ CallCreateIdentity
    \/ CallLoadIdentity
    \/ AlterFingerprint

NextContacts ==
    \/ AddContactLoad
    \/ AddContactSave
    \/ RemoveContactLoad
    \/ RemoveContactSave

NextLife ==
    \/ ApiCreateIdentity
    \/ ApiChangePassword
    \/ ApiLoadIdentity
    \/ ApiHasIdentity
    \/ ApiAddContact
    \/ ApiWipeAll

NextFingerprint ==
    \/ CallFromPublicKey
    \/ CallFingerprintNew
    \/ CallFromPublicKeyAgain
    \/ CallFormatted
    \/ CallVerify

NextWire ==
    \/ WireCreateFrame
    \/ WireFrame
    \/ WireCreateHandshake
    \/ WireMessage
    \/ WireSerialize
    \/ WireDeserialize
    \/ WireNextSequence

NextSeals ==
    \/ SealEncrypt
    \/ SealEncryptWithPassword

NextTor ==
    \/ CallValidateOnionAddress
    \/ CallBootstrap
    \/ CallSetStatus
    \/ CallConnectToOnion
    \/ CallIsReachable

NextConnection ==
    \/ CallSetConnected
    \/ AssignState

NextOwner ==
    \/ OwnerAddContact
    \/ OwnerRemoveContact

NextPeers ==
    \/ PeerNew
    \/ PeerSetConnected

Next ==
    \/ NextCrypto
    \/ NextProtocol
    \/ NextStorage
    \/ NextConnection
    \/ NextContacts
    \/ NextLife
    \/ NextFingerprint
    \/ NextWire
    \/ NextSeals
    \/ NextTor
    \/ NextOwner
    \/ NextPeers

SpecCrypto == Init /\ [][NextCrypto]_vars

SpecProtocol == Init /\ [][NextProtocol]_vars

SpecStorage == Init /\ [][NextStorage]_vars

SpecConnection == Init /\ [][NextConnection]_vars

SpecContacts == Init /\ [][NextContacts]_vars

SpecLife == Init /\ [][NextLife]_vars

SpecFingerprint == Init /\ [][NextFingerprint]_vars

SpecWire == Init /\ [][NextWire]_vars

SpecSeals == Init /\ [][NextSeals]_vars

SpecTor == Init /\ [][NextTor]_vars

SpecOwner == Init /\ [][NextOwner]_vars

SpecPeers == Init /\ [][NextPeers]_vars

Spec == Init /\ [][Next]_vars
(***************************************************************************)
(* The properties.                                                         *)
(***************************************************************************)
\* C1: for every two identity key pairs A (initiator) and B (responder), both
\* derivations succeed and the keys are mirrored: initiator.tx = responder.rx
\* and initiator.rx = responder.tx.
C1_SessionKeysMirrored ==
    kx.stage = "done" =>
        /\ kx.client.ok
        /\ kx.server.ok
        /\ kx.client.val.tx = kx.server.val.rx
        /\ kx.client.val.rx = kx.server.val.tx

\* two different identities have exchanged keys, and the two directions have different keys
C1_Witness ==
    /\ kx.stage = "done"
    /\ kx.a # kx.b
    /\ kx.client.ok
    /\ Len(kx.client.val.tx) = KEYBYTES
    /\ kx.client.val.tx = kx.server.val.rx
    /\ kx.client.val.tx # kx.client.val.rx

\* C2: decrypt(encrypt(p, k), k) succeeds and returns exactly p, and a message
\* encrypted with one side's tx key is recovered exactly by the peer with its
\* rx key, in both directions.
C2_DecryptEncrypt ==
    /\ sym.stage = "sealed" /\ sym.hit = "none" => Decrypt(sym.enc, sym.key) = Ok(sym.p)
    /\ sym.stage = "opened" /\ sym.hit = "none" /\ sym.reader = Peer(sym.sender)
          => sym.res = Ok(sym.p)

\* the initiator has recovered a message of the longest length sent by the responder
C2_Witness ==
    /\ sym.stage = "opened"
    /\ sym.hit = "none"
    /\ sym.sender = "server"
    /\ sym.reader = "client"
    /\ sym.a # sym.b
    /\ Len(sym.p) = MaxLen
    /\ sym.res = Ok(sym.p)

\* C3: decrypt_with_password(encrypt_with_password(d, P), P) succeeds and
\* returns exactly d.
C3_PasswordRoundTrip ==
    pwd.stage = "opened" /\ pwd.hit.kind = "none" /\ pwd.dpassword = pwd.password
        => pwd.res = Ok(pwd.d)

\* non-empty data came back under the password it was encrypted with
C3_Witness ==
    /\ pwd.stage = "opened"
    /\ pwd.hit.kind = "none"
    /\ pwd.dpassword = pwd.password
    /\ Len(pwd.d) = MaxLen
    /\ pwd.res = Ok(pwd.d)

\* C4: decrypt_with_password fails with DecryptionFailed, and with no other
\* error, on a blob shorter than the 40-byte header, on a damaged blob and on a
\* password other than the one used to encrypt.
C4_PasswordFailureIsDecryptionFailed ==
    pwd.stage = "opened" =>
        /\ ~pwd.res.ok => pwd.res = Err("DecryptionFailed")
        /\ pwd.hit.kind # "none" \/ pwd.dpassword # pwd.password
              => pwd.res = Err("DecryptionFailed")

\* a blob cut to 39 bytes was refused under the right password
C4_Witness ==
    /\ pwd.stage = "opened"
    /\ pwd.hit = [kind |-> "cut", at |-> 39]
    /\ Len(pwd.blob) = 39
    /\ pwd.dpassword = pwd.password
    /\ pwd.res = Err("DecryptionFailed")

\* C5, as stated: decrypt fails with DecryptionFailed when authentication fails
\* and when the nonce or the ciphertext field is malformed.
C5_AlwaysDecryptionFailed ==
    sym.stage = "opened" /\ (sym.hit # "none" \/ sym.reader = sym.sender)
        => sym.res = Err("DecryptionFailed")

\* C5: decrypt fails with Base64Error when the nonce or the ciphertext field is
\* not valid base64, with InvalidKeyLength when the nonce decodes to another
\* length than 24 bytes, and with DecryptionFailed when authentication fails
\* (wrong key, altered nonce, tag or ciphertext).
C5_DecryptErrors ==
    sym.stage = "opened" /\ (sym.hit # "none" \/ sym.reader = sym.sender) =>
        sym.res = IF sym.hit \in {"nonce_base64", "ciphertext_base64"} THEN Err("Base64Error")
                  ELSE IF sym.hit = "nonce_length" THEN Err("InvalidKeyLength")
                  ELSE Err("DecryptionFailed")

\* a message whose nonce was cut short was refused by the peer with InvalidKeyLength
C5_Witness ==
    /\ sym.stage = "opened"
    /\ sym.hit = "nonce_length"
    /\ sym.reader = Peer(sym.sender)
    /\ sym.res = Err("InvalidKeyLength")

\* C6: remove_padding(apply_padding(d, n)) = d for n > 0; the padded output is d,
\* one 0x80 byte, then zero bytes; its length is a positive multiple of n and
\* greater than len(d); apply_padding([0x41,0x42], 4) = [0x41,0x42,0x80,0x00].
C6_PaddingRoundTrip ==
    pad.stage \in {"padded", "removed"} =>
        /\ pad.padded = pad.d \o <<128>> \o Repeat(0, Len(pad.padded) - Len(pad.d) - 1)
        /\ Len(pad.padded) > 0
        /\ Len(pad.padded) % pad.n = 0
        /\ Len(pad.padded) > Len(pad.d)
        /\ pad.d = <<65, 66>> /\ pad.n = 4 => pad.padded = <<65, 66, 128, 0>>
        /\ pad.stage = "removed" => pad.res = Ok(pad.d)

\* [0x41,0x42] was padded to 4 bytes and unpadded again
C6_Witness ==
    /\ pad.stage = "removed"
    /\ pad.d = <<65, 66>>
    /\ pad.n = 4
    /\ pad.padded = <<65, 66, 128, 0>>
    /\ pad.res = Ok(<<65, 66>>)

\* C7: on a fresh ChatProtocol used only through create_text_message and
\* create_file_message, the k-th message created, counting from 0, carries
\* sequence number k.
C7_SequenceNumbers ==
    ~direct =>
        /\ protocol.sequence = Len(created)
        /\ \A k \in 1..Len(created) : created[k].sequence = k - 1

\* three or more messages were created, text and file messages among them
C7_Witness ==
    /\ ~direct
    /\ Len(created) >= 3
    /\ \E i, j \in 1..Len(created) :
          created[i].msg_type = "Text" /\ created[j].msg_type = "File"
    /\ created[Len(created)].sequence = Len(created) - 1

\* C8: after create_identity(P) returned fingerprint F, load_identity(P)
\* succeeds and returns a key pair whose public key F verifies.
C8_LoadAfterCreate ==
    call.op = "load_identity" /\ made.valid /\ ~altered /\ call.password = made.password
        => /\ call.res.ok
           /\ FingerprintVerify(made.fingerprint, Base64Decode(call.res.val.public_key).val)

\* an identity was loaded with the password it was created with
C8_Witness ==
    /\ call.op = "load_identity"
    /\ made.valid
    /\ ~altered
    /\ ~rejected
    /\ call.password = made.password
    /\ call.res.ok
    /\ FingerprintVerify(made.fingerprint, Base64Decode(call.res.val.public_key).val)

\* C9: after create_identity(P), load_identity(P') with P' # P fails with
\* InvalidPassword, returns no key pair and leaves the files as they were, and
\* a later load_identity(P) succeeds.
C9_WrongPassword ==
    call.op = "load_identity" /\ made.valid =>
        /\ call.password # made.password
              => call.res = Err("InvalidPassword") /\ disk = call.before
        /\ rejected /\ ~altered /\ call.password = made.password => call.res.ok

\* a wrong password was rejected, and the identity was loaded afterwards
C9_Witness ==
    /\ call.op = "load_identity"
    /\ made.valid
    /\ rejected
    /\ ~altered
    /\ call.password = made.password
    /\ call.res.ok

\* C10: when the clear fingerprint of identity.enc was altered and the
\* encrypted data left intact, load_identity with the correct password fails
\* with FingerprintMismatch, and returns no key pair, although the data decrypt.
C10_AlteredFingerprint ==
    call.op = "load_identity" /\ made.valid /\ altered /\ call.password = made.password
        => /\ call.res = Err("FingerprintMismatch")
           /\ LET secure_id == SecureIdentityFrom(disk["identity.enc"].content).val
              IN  DecryptWithPassword(Base64Decode(secure_id.encrypted_data).val,
                                      call.password).ok

\* the altered file was refused under the correct password
C10_Witness ==
    /\ call.op = "load_identity"
    /\ made.valid
    /\ altered
    /\ call.password = made.password
    /\ call.res = Err("FingerprintMismatch")
    /\ SecureIdentityFrom(disk["identity.enc"].content).val.fingerprint # made.fingerprint
\* C11: a P2PConnection enters Connected only from Handshake, and a Connected
\* connection holds a session key; a connection that is not Connected after a
\* handshake step is Disconnected.
C11_ConnectedOnlyFromHandshake ==
    [][/\ conn'.state = "Connected" /\ conn.state # "Connected" => conn.state = "Handshake"
       /\ conn'.state = "Connected" => conn'.session_key # None]_vars

\* C12: once a P2PConnection is in Closing it holds no session key and no
\* operation moves it to another state.
C12_ClosingTerminal ==
    [][conn.state = "Closing" => conn.session_key = None /\ conn'.state = "Closing"]_vars
\* C13: when encrypt_with_password or decrypt_with_password returns, with a
\* result or with an error, the buffer of the password-derived key holds zeros.
C13_DerivedKeyZeroed ==
    pwd.stage \in {"sealed", "opened"} /\ pwd.key.some => pwd.key.val = Repeat(0, KEYBYTES)
\* C14: no contact address, nickname or fingerprint is on disk in cleartext:
\* the contact list is stored as one password-encrypted blob.
C14_ContactsEncrypted ==
    \A f \in StorageFiles :
       \A str \in ContactAddresses \cup ContactNicknames \cup ContactFingerprints :
          LET text == disk[f].content
          IN  \A i \in 1..(Len(text) - Len(str) + 1) : SubSeq(text, i, i + Len(str) - 1) # str

\* C16: add_contact for an address that is in the list it loaded returns Ok and
\* leaves the files as they are: no second entry, no change to the entry's
\* nickname, fingerprint or added_at.
C16_AddContactIdempotent ==
    [][/\ \A t \in Threads :
             /\ thr[t].pc = "loaded" /\ thr'[t].pc = "done"
             /\ thr[t].op = "add_contact"
             /\ AnyAddress(thr[t].contacts, thr[t].address)
             => thr'[t].res = Ok(<<>>) /\ disk' = disk
       /\ LET loaded == LoadContacts(disk)
          IN  \A address \in ContactAddresses :
                 loaded.ok /\ AnyAddress(loaded.val, address)
                 => \A nickname \in ContactNicknames, fingerprint \in ContactFingerprints,
                       now \in Times :
                       AddContact(disk, dir_ok, address, nickname, fingerprint, now)
                         = [disk |-> disk, res |-> Ok(<<>>)]]_vars

\* a task added an address that was there under another nickname: the list still
\* has the one entry, with the nickname it had
C16_Witness ==
    \E t \in Threads :
       /\ thr[t].pc = "done"
       /\ thr[t].op = "add_contact"
       /\ thr[t].found
       /\ thr[t].res = Ok(<<>>)
       /\ LET contacts == LoadContacts(disk).val
          IN  /\ Len(contacts) = 1
              /\ contacts[1].address = thr[t].address
              /\ contacts[1].nickname # thr[t].nickname

\* C17: an add_contact that adds saves the list it loaded plus its contact,
\* whatever contacts.json holds by then, so that a contact another task saved
\* since the load is no longer persisted although both calls return Ok.
C17_LostUpdate ==
    [][\A t \in Threads :
          /\ thr[t].pc = "loaded" /\ thr'[t].pc = "done"
          /\ thr[t].op = "add_contact"
          /\ thr'[t].res.ok
          /\ ~thr'[t].found
          => /\ \E now \in Times :
                   LoadContacts(disk') =
                      Ok(Append(thr[t].contacts,
                                NewStoredContact(thr[t].address, thr[t].nickname,
                                                 thr[t].fingerprint, now)))
             /\ LET before == LoadContacts(disk).val
                IN  \A i \in 1..Len(before) :
                       /\ ~AnyAddress(thr[t].contacts, before[i].address)
                       /\ before[i].address # thr[t].address
                       => ~AnyAddress(LoadContacts(disk').val, before[i].address)]_vars

\* two tasks added different addresses, both calls returned Ok, and the contact
\* of the one that saved first is not in contacts.json
C17_Witness ==
    \E t \in Threads, u \in Threads :
       /\ t # u
       /\ \A v \in {t, u} :
             /\ thr[v].pc = "done"
             /\ thr[v].op = "add_contact"
             /\ thr[v].res = Ok(<<>>)
             /\ ~thr[v].found
       /\ thr[t].address # thr[u].address
       /\ thr[u].stale
       /\ ~thr[t].stale
       /\ ~AnyAddress(LoadContacts(disk).val, thr[t].address)
       /\ AnyAddress(LoadContacts(disk).val, thr[u].address)
\* C15: after a successful create_identity, load_identity returns the same key
\* pair whatever storage operations came in between, until wipe_all.
C15_IdentityImmutable ==
    life.op = "load_identity" /\ life.res.ok /\ life.first.some => life.res.val = life.first.val

C19_ZeroedBeforeUnlink ==
    life.op = "wipe_all" => \A f \in StorageFiles : life.unlinked[f] # "data"
\* C20: from_public_key yields the same value each time it is given the same
\* public key, and fp.verify(pk) is true exactly when fp equals
\* from_public_key(pk): for a fingerprint made from a key pair, exactly when pk
\* is the public key of that pair.
C20_FingerprintOfKey ==
    /\ fpc.again.some => fpc.again.val = fpc.fp
    /\ fpc.stage = "verified" =>
          /\ fpc.res <=> fpc.fp = FingerprintFromPublicKey(DecodedIdentity(fpc.pk).pk)
          /\ fpc.key # 0 => (fpc.res <=> fpc.key = fpc.pk)

\* a fingerprint made twice from one key was verified against the key of another pair
C20_Witness ==
    /\ fpc.stage = "verified"
    /\ fpc.again.some
    /\ fpc.key # 0
    /\ fpc.key # fpc.pk
    /\ ~fpc.res
\* C21: the formatted fingerprint of a public key has length 19: 16 characters
\* in groups of four separated by 3 hyphens.
C21_FormattedLength ==
    fpc.key # 0 /\ fpc.formatted.some => Len(fpc.formatted.val) = 19
\* C22: a frame, a message or a handshake that is serialized and read back is
\* read without error and equals the original field for field.
C22_SerializationRoundTrip ==
    wire.stage = "deserialized" => wire.text.ok /\ wire.back = Ok(wire.val)

\* a file message whose content holds a quote went through serialize_message
\* and deserialize_message
C22_Witness ==
    /\ wire.stage = "deserialized"
    /\ wire.kind = "message"
    /\ wire.val.file_metadata.some
    /\ \E i \in 1..Len(wire.val.content) : wire.val.content[i] = 34
    /\ wire.back.ok
\* C23: the frame create_frame returns carries the payload it was given, the
\* type Single and the hash of the payload as checksum, and the call leaves
\* the sequence counter as it was.
C23_CreateFrame ==
    [][wire' # wire /\ wire'.op = "create_frame" =>
          /\ wire'.val.payload = wire'.payload
          /\ wire'.val.frame_type = "Single"
          /\ wire'.val.checksum = Base64Encode(Sha256(wire'.payload))
          /\ protocol'.sequence = protocol.sequence]_vars

\* create_frame was called on a protocol whose counter had moved, with a
\* payload that is not empty
C23_Witness ==
    /\ wire.op = "create_frame"
    /\ wire.stage = "made"
    /\ wire.payload # <<>>
    /\ protocol.sequence > 0
\* C24: two seal operations, by encrypt or by encrypt_with_password, never
\* use the same nonce, so never the same nonce under the same key; two
\* encrypt_with_password calls never use the same salt.
C24_NonceNeverReused ==
    seals.first.some /\ seals.second.some =>
       /\ seals.first.val.nonce # seals.second.val.nonce
       /\ ~(seals.first.val.key = seals.second.val.key
              /\ seals.first.val.nonce = seals.second.val.nonce)
       /\ seals.first.val.op = "encrypt_with_password"
            /\ seals.second.val.op = "encrypt_with_password"
            => seals.first.val.salt # seals.second.val.salt

\* encrypt sealed twice under one session key
C24_Witness ==
    /\ seals.first.some
    /\ seals.second.some
    /\ seals.first.val.op = "encrypt"
    /\ seals.second.val.op = "encrypt"
    /\ seals.first.val.key = seals.second.val.key
\* C25: validate_onion_address accepts an address exactly when the address,
\* with a trailing ".onion" removed, has 56 characters, each in a-z or 2-7.
C25_ValidateOnionAddress ==
    tor.op = "validate_onion_address" =>
       LET n == Len(tor.address)
           suffixed == n >= Len(ONION) /\ SubSeq(tor.address, n - Len(ONION) + 1, n) = ONION
           name == IF suffixed THEN SubSeq(tor.address, 1, n - Len(ONION)) ELSE tor.address
       IN  tor.res.ok <=> Len(name) = 56 /\ \A i \in 1..Len(name) : IsOnionChar(name[i])
\* C30: connect_to_onion and is_reachable call the SOCKS proxy only when the
\* status is Ready and the address passes validate_onion_address; when the
\* status is not Ready connect_to_onion returns NotInitialized, and when it is
\* Ready and the address is invalid, InvalidOnionAddress.  A new TorManager is
\* NotStarted, and the status becomes Ready only by a bootstrap that succeeds
\* or by set_status; a bootstrap that fails leaves the status as it was.
C30_ConnectGuards ==
    [][/\ tor' # tor /\ tor'.op \in {"connect_to_onion", "is_reachable"} =>
             /\ tor'.attempted =>
                   tor.self.status = Ready /\ ValidateOnionAddress(tor'.address).ok
             /\ tor'.self = tor.self
       /\ tor' # tor /\ tor'.op = "connect_to_onion" =>
             /\ tor.self.status # Ready => tor'.res = Err("NotInitialized")
             /\ tor.self.status = Ready /\ ~ValidateOnionAddress(tor'.address).ok =>
                   tor'.res = Err("InvalidOnionAddress")
       /\ tor.op = "new" => tor.self.status = Status("NotStarted", 0, "")
       /\ tor.self.status # Ready /\ tor'.self.status = Ready =>
             \/ tor'.op = "bootstrap" /\ tor'.res.ok
             \/ tor'.op = "set_status"
       /\ tor' # tor /\ tor'.op = "bootstrap" /\ ~tor'.res.ok =>
             tor'.self.status = tor.self.status]_vars

\* connect_to_onion called the proxy for a well-formed address after a
\* bootstrap had made the manager Ready
C30_Witness ==
    /\ tor.op = "connect_to_onion"
    /\ tor.attempted
    /\ tor.self.tor_client
    /\ tor.self.status = Ready
    /\ tor.res.ok

(***************************************************************************)
(* C26: when add_contact and remove_contact are executed one at a time on  *)
(* a store that starts empty, no update is lost: an address is in the      *)
(* persisted list exactly when the last operation on it (the last call     *)
(* that returned Ok) was an add_contact, and find_contact returns the      *)
(* entry of that address exactly then.                                     *)
(***************************************************************************)
C26_NoLostUpdate ==
    \E contacts \in {LoadContacts(disk)} :
       /\ contacts.ok
       /\ \A a \in OwnerAddresses :
             \E found \in {FindContact(disk, a)} :
                /\ AnyAddress(contacts.val, a) <=> own.last[a] = "add_contact"
                /\ found.some <=> own.last[a] = "add_contact"
                /\ found.some => found.val.address = a

\* an address was removed from a list that had it, another was added and is found
C26_Witness ==
    /\ own.op = "remove_contact"
    /\ own.res.ok
    /\ own.found
    /\ ~FindContact(disk, own.address).some
    /\ \E b \in OwnerAddresses :
          /\ b # own.address
          /\ own.last[b] = "add_contact"
          /\ FindContact(disk, b).some

(***************************************************************************)
(* C27: under sequential add_contact and remove_contact calls on a store   *)
(* that starts empty, the persisted list has at most one entry per         *)
(* address, and a remove_contact(a) that returns Ok removes every entry    *)
(* with address a and leaves the other entries unchanged, in their order.  *)
(***************************************************************************)
C27_OnePerAddress ==
    [][\E before \in {LoadContacts(disk).val}, after \in {LoadContacts(disk').val} :
          LET other(c) == c.address # own'.address
          IN  /\ \A i, j \in 1..Len(after) : after[i].address = after[j].address => i = j
              /\ own'.op = "remove_contact" /\ own'.res.ok =>
                    /\ \A i \in 1..Len(after) : after[i].address # own'.address
                    /\ after = SelectSeq(before, other)]_vars

\* "b.onion" was removed from a list that had it: "c.onion" and "a.onion" are
\* left, in the order in which they were added
C27_Witness ==
    /\ own.op = "remove_contact"
    /\ own.res.ok
    /\ own.found
    /\ own.address = <<98, 46, 111, 110, 105, 111, 110>>
    /\ \E contacts \in {LoadContacts(disk).val} :
          /\ Len(contacts) = 2
          /\ contacts[1].address = <<99, 46, 111, 110, 105, 111, 110>>
          /\ contacts[2].address = <<97, 46, 111, 110, 105, 111, 110>>

(***************************************************************************)
(* C29: a P2PConnection that is driven only through P2PConnection::new and *)
(* set_connected holds a session key exactly when its state is Connected:  *)
(* a new connection is Disconnected, has no session key and no pending     *)
(* acks, and is_connected() is true only when a session key is present.    *)
(***************************************************************************)
C29_KeyIffConnected ==
    \A a \in ContactAddresses :
       peers.made[a].some =>
          \E self \in {peers.made[a].val} :
             /\ self.session_key.some <=> self.state = "Connected"
             /\ IsConnected(self) => self.session_key.some
             /\ self.state \in {"Disconnected", "Connected"}
             /\ peers.op = "new" /\ peers.address = a =>
                   /\ self.state = "Disconnected"
                   /\ self.session_key = None
                   /\ self.pending_acks = <<>>
                   /\ ~IsConnected(self)

\* one connection was connected with a session key, another is new
C29_Witness ==
    \E a, b \in ContactAddresses :
       /\ peers.made[a].some
       /\ peers.made[b].some
       /\ IsConnected(peers.made[a].val)
       /\ peers.made[a].val.session_key \in {Some(k) : k \in SessionKeyValues}
       /\ peers.op = "new"
       /\ peers.address = b
       /\ peers.made[b].val.state = "Disconnected"

====
